---- MODULE Spec2Model ----
(***************************************************************************)
(* Solar-disk geometry and reprojection pipeline of solarspotting-app.     *)
(*                                                                         *)
(* The specifications of this module:                                      *)
(*   MergeSpec  ImageProcessor.merge_nearby_candidates applied to bounded  *)
(*              candidate lists.                                           *)
(*   GeoSpec    the per-candidate body of process_single_image: patch      *)
(*              rectification and the patch grid, in exact rational        *)
(*              arithmetic.                                                *)
(*   PipeSpec   the control flow of process_dataset and                    *)
(*              process_single_image over a batch of images.               *)
(*   GridSpec   SolarGridGenerator.generate_global_grid_15deg, one line    *)
(*              of the grid per step.                                      *)
(*   LoopSpec   the loop over merged_candidates of process_single_image,   *)
(*              one frame of locals per worker.                            *)
(*   SphereSpec SolarReprojector.cartesian_to_spherical on one pixel.      *)
(*   OrientSpec SolarOrientation.from_datetime in fixed-point arithmetic.  *)
(*   RateSpec   RateLimitMiddleware.dispatch with the Redis counter and    *)
(*              the in-memory fallback.                                    *)
(*   TrainSpec  start_training and the _run_training threads.              *)
(*   SegSpec    segment_multi_levels_otsu and                              *)
(*              binarize_from_multiotsu_output on a row of pixels.         *)
(*   DetSpec    ImageProcessor.detect_candidates on a small mask.          *)
(*   CoordSpec  the coordinate frames of process_single_image: the         *)
(*              resized image, the disk, the candidates, the rectifier.    *)
(*   JobSpec    the steps of one _run_training thread, the active model    *)
(*              file and get_cached_model.                                 *)
(*   AuthSpec   AuthHelper.authenticate_user, one session per request.     *)
(***************************************************************************)
EXTENDS Integers, Sequences, FiniteSets, TLC

VARIABLES
    \* ---- merge_nearby_candidates ----
    regions,      \* argument: list of candidate dicts
    max_dist,     \* argument
    max_size,     \* argument
    merged,       \* the returned list
    groups,       \* the value of the local `group` at each seed, with the
                  \* slice of `merged` the seed's iteration appended
    mpc,          \* "call" before the call, "done" after it returned
    \* ---- per-candidate body of process_single_image ----
    disk,         \* [cx, cy, r]: the detected disk geometry
    P0,           \* [s, c, d]: sin(P0) = s/d, cos(P0) = c/d
    cand,         \* [cx, cy]: center of the merged candidate (rationals)
    patch_size,   \* argument patch_size / scale
    global_grid,  \* [lat_lines, lon_lines]
    px, py,       \* int(cand["cx"]), int(cand["cy"])
    R_rect,       \* the matrix R built by rectify_patch_from_solar_orientation
    remap,        \* (X_new, Y_new): output pixel <<i, j>> -> source coordinate
    patch_grid,   \* [patch_lat_lines, patch_lon_lines]
    grid_R,       \* the matrices R built by _rectify_point for the kept points
    gpc,          \* "start", "rectified", "done"
    \* ---- process_single_image / process_dataset ----
    entry,        \* "single": process_single_image, "dataset": process_dataset
    images,       \* the image of the call, or the files of the input folder
    img_i,        \* index of the image being processed (0 before the first)
    ppc,          \* "next", "loaded", "segmented", "loop", "returned", "raised"
    candidates,   \* [set, list]: the local `candidates` once it is assigned
    merged_candidates,
    cand_k,       \* position of the for loop over merged_candidates
    patch_results,\* process_single_image: the list returned under "patches"
    written,      \* process_dataset: the patch files written by cv2.imwrite
    processed,    \* indices of the images whose loop iteration was entered
    error,        \* the exception that left the entry point, or "none"
    \* ---- generate_global_grid_15deg ----
    orient,       \* [B0, P0, L0]: SolarOrientation.from_datetime(dt)
    lat_lines,    \* the local lat_lines
    lon_lines,    \* the local lon_lines
    line_k,       \* position of the running for loop over lat_values/lon_values
    gridpc,       \* "lat", "lon", "return", "done"
    \* ---- the loop over merged_candidates, one frame per worker ----
    loop_cands,   \* merged_candidates
    loop_P0,      \* P0 of img_date_time
    loop_size,    \* patch_size
    loop_grid,    \* global_grid
    encodes,      \* candidate index -> the success flag cv2.imencode returns
    todo,         \* indices of the candidates no iteration has taken yet
    frames,       \* worker -> the locals of the loop body: k, pc, px, py,
                  \* rectified_patch (its matrix R), patch_grid
    results,      \* patch_results
    looppc,       \* "loop", "returned"
    \* ---- cartesian_to_spherical on one pixel ----
    sph_in,       \* [x, y]: the pixel handed in
    sph_out,      \* (nx, ny, nz) as returned
    sphpc,        \* "call", "done"
    \* ---- SolarOrientation.from_datetime ----
    o_dt,         \* argument dt: [Y, M, D, H, h, s]
    o_jde,        \* datetime_to_jde(dt): [q, r], see JDE below
    o_sun,        \* calculate_sun_position(jde): [SL, R, Epsilon]
    o_out,        \* calculate_B0_P0_L0(jde): B0, P0, L0 and its locals
    opc,          \* "jde", "sun", "orient", "done"
    \* ---- RateLimitMiddleware ----
    clock,            \* time.time(), in seconds
    redis_up,         \* whether the Redis server answers
    redis_available,  \* self.redis_available
    redis_keys,       \* the server's rate_limit:<ip> keys: ip -> [count, expires]
    fallback_storage, \* self.fallback_storage: ip -> list of timestamps
    forwarded,        \* ip -> times at which call_next was given a limited
                      \* request of that client during the last minute
    last_response,    \* [ip, path, status, passed] of the last dispatch
    \* ---- POST /labeling/train ----
    training_status,  \* the module's training_status: is_running, job_id,
                      \* status, current_epoch
    train_threads,    \* job ids of the _run_training threads that are alive
    train_reqs,       \* request -> [pc, response, raced]: position of its
                      \* start_training call, its HTTP status, and whether it
                      \* arrived while no training was running
    loop_task,        \* the request whose handler the event loop runs, or 0
    dataset_ready,    \* whether the YOLO dataset of OUTPUT_DIR is complete
    \* ---- segment_multi_levels_otsu and binarize_from_multiotsu_output ----
    seg_image,    \* bilateral_filtered: pixel -> gray value
    seg_disk,     \* disk_mask: the pixels inside the disk
    otsu_pixels,  \* the pixels whose values make up the local `pixels`
    thresholds,   \* the local `thresholds`
    segmented,    \* multi_otsu_segmented: pixel -> palette value
    binarized,    \* binarized: pixel -> 0 or 1
    segpc,        \* "segment", "binarize", "done", "raised"
    \* ---- detect_candidates ----
    det_mask,     \* argument mask: the set of its pixels > 0, each <<x, y>>
    det_disk,     \* argument disk_mask: the set of its pixels > 0
    det_regions,  \* the returned list
    displayed,    \* the images handed to ImageProcessor.show_image
    detpc,        \* "call", "done"
    \* ---- the images of process_single_image ----
    co_gray,      \* the local `gray`: [size], an image of size x size pixels
    co_resized,   \* the local `resized` of the segmentation pipeline
    co_disk,      \* (cx, cy, r) as the segmentation pipeline returns them
    co_cand,      \* (px, py) of the candidate of the running iteration
    co_call,      \* the arguments of rectify_patch_from_solar_orientation
    copc,         \* "segment", "detect", "rectify", "done"
    \* ---- _run_training, ModelManager and get_cached_model ----
    job_pc,        \* position of the _run_training thread: "none", "import",
                   \* "check", "archive", "train", "save", "copying",
                   \* "invalidate", "complete", "except", "ended"
    job_no,        \* number of training threads started so far
    run_status,    \* training_status: is_running, status, finished_at (set?)
    active_model,  \* content of ML_MODELS_ACTIVE/best.pt: 0 for no file, the
                   \* number of a model, or -1 while and after a broken copy
    active_before, \* content of that file when the running job started
    archive_files, \* contents of the files of ML_MODELS_ARCHIVE
    model_cache,   \* _model_cache["model"]: 0 for None, or the number of
                   \* the model it was loaded from
    model_lock,    \* holder of _model_lock: 0 if free, or a request
    cache_reqs,    \* request -> [pc, loaded, returned, fresh] of its
                   \* get_cached_model call
    \* ---- AuthHelper.authenticate_user ----
    user_row,       \* the committed row of the account: login_attempts, locked
    auth_sessions,  \* request -> [pc, attempts, loaded, locks, began_locked,
                    \* result]: position of its authenticate_user call, the
                    \* login_attempts of its own User object, the value it
                    \* loaded, whether it set locked, whether the row was
                    \* locked when the call began, and what the call returned
    failures        \* failed password attempts on the unlocked account that
                    \* were committed since the last successful login

mergeVars == <<regions, max_dist, max_size, merged, groups, mpc>>

geoVars == <<disk, P0, cand, patch_size, global_grid, px, py, R_rect, remap,
             patch_grid, grid_R, gpc>>

pipeVars == <<entry, images, img_i, ppc, candidates, merged_candidates,
              cand_k, patch_results, written, processed, error>>

gridVars == <<orient, lat_lines, lon_lines, line_k, gridpc>>

loopVars == <<loop_cands, loop_P0, loop_size, loop_grid, encodes, todo,
              frames, results, looppc>>

sphereVars == <<sph_in, sph_out, sphpc>>

orientVars == <<o_dt, o_jde, o_sun, o_out, opc>>

rateVars == <<clock, redis_up, redis_available, redis_keys, fallback_storage,
              forwarded, last_response>>

trainVars == <<training_status, train_threads, train_reqs, loop_task,
               dataset_ready>>

segVars == <<seg_image, seg_disk, otsu_pixels, thresholds, segmented,
             binarized, segpc>>

detVars == <<det_mask, det_disk, det_regions, displayed, detpc>>

coordVars == <<co_gray, co_resized, co_disk, co_cand, co_call, copc>>

jobVars == <<job_pc, job_no, run_status, active_model, active_before,
             archive_files, model_cache, model_lock, cache_reqs>>

authVars == <<user_row, auth_sessions, failures>>

extVars == <<gridVars, loopVars, sphereVars, orientVars, rateVars,
            trainVars, segVars, detVars, coordVars, jobVars, authVars>>

vars == <<mergeVars, geoVars, pipeVars, extVars>>

\* what each of the later specifications leaves alone
coreVars == <<mergeVars, geoVars, pipeVars>>

gridOthers == <<coreVars, loopVars, sphereVars, orientVars, rateVars,
            trainVars, segVars, detVars, coordVars, jobVars, authVars>>

loopOthers == <<coreVars, gridVars, sphereVars, orientVars, rateVars,
            trainVars, segVars, detVars, coordVars, jobVars, authVars>>

sphereOthers == <<coreVars, gridVars, loopVars, orientVars, rateVars,
            trainVars, segVars, detVars, coordVars, jobVars, authVars>>

orientOthers == <<coreVars, gridVars, loopVars, sphereVars, rateVars,
            trainVars, segVars, detVars, coordVars, jobVars, authVars>>

rateOthers == <<coreVars, gridVars, loopVars, sphereVars, orientVars,
            trainVars, segVars, detVars, coordVars, jobVars, authVars>>

trainOthers == <<coreVars, gridVars, loopVars, sphereVars, orientVars,
            rateVars, segVars, detVars, coordVars, jobVars, authVars>>

segOthers == <<coreVars, gridVars, loopVars, sphereVars, orientVars,
            rateVars, trainVars, detVars, coordVars, jobVars, authVars>>

detOthers == <<coreVars, gridVars, loopVars, sphereVars, orientVars,
            rateVars, trainVars, segVars, coordVars, jobVars, authVars>>

coordOthers == <<coreVars, gridVars, loopVars, sphereVars, orientVars,
            rateVars, trainVars, segVars, detVars, jobVars, authVars>>

jobOthers == <<coreVars, gridVars, loopVars, sphereVars, orientVars,
            rateVars, trainVars, segVars, detVars, coordVars, authVars>>

authOthers == <<coreVars, gridVars, loopVars, sphereVars, orientVars,
            rateVars, trainVars, segVars, detVars, coordVars, jobVars>>

----------------------------------------------------------------------------
(* Arithmetic helpers.  Python floats that hold means of integer pixel     *)
(* coordinates are kept as exact rationals [n, d] with d > 0.              *)

Rat(n, d) == [n |-> n, d |-> d]


RatSub(a, b) == Rat(a.n * b.d - b.n * a.d, a.d * b.d)

RatAdd(a, b) == Rat(a.n * b.d + b.n * a.d, a.d * b.d)

RECURSIVE SeqSumRat(_)
SeqSumRat(s) == IF s = <<>> THEN Rat(0, 1)
                ELSE RatAdd(s[1], SeqSumRat(Tail(s)))

SeqMin(s) == CHOOSE m \in {s[k] : k \in DOMAIN s} :
                 \A k \in DOMAIN s : m <= s[k]

SeqMax(s) == CHOOSE m \in {s[k] : k \in DOMAIN s} :
                 \A k \in DOMAIN s : m >= s[k]

----------------------------------------------------------------------------
(* ImageProcessor.merge_nearby_candidates                                  *)

\* np.hypot(r1.cx - r2.cx, r1.cy - r2.cy) < max_dist, compared on squares
DistLess(r1, r2, md) ==
    LET dx == RatSub(r1.cx, r2.cx)
        dy == RatSub(r1.cy, r2.cy)
        \* dx^2 + dy^2 as one fraction
        num == dx.n * dx.n * dy.d * dy.d + dy.n * dy.n * dx.d * dx.d
        den == dx.d * dx.d * dy.d * dy.d
    IN  num < md * md * den

\* mutation of NearSeed: r2 is compared with every member gathered so far
NearAnyMember(regs, i, group, j, md) ==
    \E m \in {group[k] : k \in DOMAIN group} : DistLess(regs[m], regs[j], md)

\* dist = np.hypot(r1["cx"] - r2["cx"], r1["cy"] - r2["cy"]);
\* if dist < max_dist: r1 is the seed, whatever `group` holds by now
NearSeed(regs, i, group, j, md) == DistLess(regs[i], regs[j], md)

\* indices appended to `group` by the inner loop for seed i, in loop order;
\* group holds the indices of the list `group` so far
RECURSIVE GatherFrom(_, _, _, _, _, _)
GatherFrom(regs, i, j, used, group, md) ==
    IF j > Len(regs) THEN <<>>
    ELSE IF j \in used \/ i = j
         THEN GatherFrom(regs, i, j + 1, used, group, md)
    ELSE IF NearSeed(regs, i, group, j, md)
         THEN <<j>> \o GatherFrom(regs, i, j + 1, used \cup {j},
                                  Append(group, j), md)
         ELSE GatherFrom(regs, i, j + 1, used, group, md)

\* the union bounding box of a group (lines 626-629)
GroupBox(group) ==
    [min_x |-> SeqMin([k \in DOMAIN group |-> group[k].min_x]),
     min_y |-> SeqMin([k \in DOMAIN group |-> group[k].min_y]),
     max_x |-> SeqMax([k \in DOMAIN group |-> group[k].max_x]),
     max_y |-> SeqMax([k \in DOMAIN group |-> group[k].max_y])]

\* mutation of Oversize: both dimensions must exceed
OversizeBoth(box, ms) ==
    (box.max_x - box.min_x) > ms /\ (box.max_y - box.min_y) > ms

\* the reject test (lines 631-634)
Oversize(box, ms) ==
    (box.max_x - box.min_x) > ms \/ (box.max_y - box.min_y) > ms

\* mutation of GroupCenter: the seed's center is kept
GroupCenterSeed(group) == [cx |-> group[1].cx, cy |-> group[1].cy]

\* np.mean over the group's centers (lines 639-640)
GroupCenter(group) ==
    LET s  == SeqSumRat([k \in DOMAIN group |-> group[k].cx])
        t  == SeqSumRat([k \in DOMAIN group |-> group[k].cy])
    IN  [cx |-> Rat(s.n, s.d * Len(group)),
         cy |-> Rat(t.n, t.d * Len(group))]

\* the dict appended at lines 642-649
MergedCandidate(group) ==
    LET box == GroupBox(group)
        c   == GroupCenter(group)
    IN  [cx |-> c.cx, cy |-> c.cy,
         min_x |-> box.min_x, min_y |-> box.min_y,
         max_x |-> box.max_x, max_y |-> box.max_y]

\* the input list after one seed's iteration, had the merged dict been
\* stored over the seed
RegionsAfterSeedInPlace(regs, members, emitted) ==
    IF Len(emitted) = 1 THEN [regs EXCEPT ![members[1]] = emitted[1]]
    ELSE regs

\* the input list after one seed's iteration (lines 613-649): the stores go
\* to the locals merged, used and group and to a fresh dict; no element of
\* regions and no key of an input dict is assigned
RegionsAfterSeed(regs, members, emitted) == regs

\* mutation of UsedAfterSeed: only the seed is marked
UsedAfterSeedOnly(used, members) == used \cup {members[1]}

\* `used` after one seed's iteration: used.add(j) for every gathered j and
\* used.add(i), whether or not the group is rejected afterwards
UsedAfterSeed(used, members) ==
    used \cup {members[k] : k \in DOMAIN members}

\* the outer loop from index i on; returns the final merged list, the
\* record of the groups formed and the input list
RECURSIVE MergeFrom(_, _, _, _, _, _, _)
MergeFrom(regs, i, used, out, grps, md, ms) ==
    IF i > Len(regs) THEN [merged |-> out, groups |-> grps, regions |-> regs]
    ELSE IF i \in used THEN MergeFrom(regs, i + 1, used, out, grps, md, ms)
    ELSE
      LET members == <<i>> \o GatherFrom(regs, i, 1, used, <<i>>, md)
          group   == [k \in DOMAIN members |-> regs[members[k]]]
          used2   == UsedAfterSeed(used, members)
          reject  == Oversize(GroupBox(group), ms)
          emitted == IF reject THEN group ELSE <<MergedCandidate(group)>>
          g       == [seed |-> i, members |-> members, rejected |-> reject,
                      first |-> Len(out) + 1, count |-> Len(emitted)]
      IN  MergeFrom(RegionsAfterSeed(regs, members, emitted), i + 1, used2,
                    out \o emitted, Append(grps, g), md, ms)

merge_nearby_candidates(regs, md, ms) ==
    MergeFrom(regs, 1, {}, <<>>, <<>>, md, ms)

----------------------------------------------------------------------------
(* Exact arithmetic for the geometry.  A float is a reduced fraction       *)
(* [n, d]; a 3-vector is [x, y, z, d] (components over one denominator).   *)
(* d = 0 stands for NaN, the value numpy yields for 0/0.  The inputs are   *)
(* restricted to those for which every square root taken is rational, so   *)
(* no rounding is modelled.                                                *)

Abs(a) == IF a < 0 THEN -a ELSE a

RECURSIVE GCD(_, _)
GCD(a, b) == IF b = 0 THEN a ELSE GCD(b, a % b)

\* the rational n/d in lowest terms; 0/0 for NaN
Frac(n, d) ==
    LET g == GCD(Abs(n), Abs(d))
    IN  IF d = 0 THEN Rat(0, 0)
        ELSE IF d < 0 THEN Rat((0 - n) \div g, (0 - d) \div g)
        ELSE Rat(n \div g, d \div g)

FracMul(a, b) == Frac(a.n * b.n, a.d * b.d)

FracAdd(a, b) ==
    IF a.d = 0 \/ b.d = 0 THEN Rat(0, 0)
    ELSE LET l == (a.d \div GCD(a.d, b.d)) * b.d
         IN  Frac(a.n * (l \div a.d) + b.n * (l \div b.d), l)

FracInt(k) == Rat(k, 1)

\* np.sqrt of a perfect square k <= bound^2
ExactSqrt(k, bound) == CHOOSE s \in 0..bound : s * s = k

IsSquare(k, bound) == \E s \in 0..bound : s * s = k

Vec(x, y, z, d) ==
    LET g == GCD(GCD(Abs(x), Abs(y)), GCD(Abs(z), Abs(d)))
    IN  IF d = 0 THEN [x |-> 0, y |-> 0, z |-> 0, d |-> 0]
        ELSE [x |-> x \div g, y |-> y \div g, z |-> z \div g, d |-> d \div g]

VecIsNaN(v) == v.d = 0

\* np.dot(u, v)
VDot(u, v) == Frac(u.x * v.x + u.y * v.y + u.z * v.z, u.d * v.d)

\* q * v
VScale(q, v) == Vec(q.n * v.x, q.n * v.y, q.n * v.z, q.d * v.d)

\* u - v
VSub(u, v) == Vec(u.x * v.d - v.x * u.d, u.y * v.d - v.y * u.d,
                  u.z * v.d - v.z * u.d, u.d * v.d)

\* -v
VNeg(v) == [x |-> 0 - v.x, y |-> 0 - v.y, z |-> 0 - v.z, d |-> v.d]

\* np.cross(u, v)
VCross(u, v) == Vec(u.y * v.z - u.z * v.y, u.z * v.x - u.x * v.z,
                    u.x * v.y - u.y * v.x, u.d * v.d)

\* np.linalg.norm(v)
VNorm(v) ==
    IF v.d = 0 THEN Rat(0, 0)
    ELSE Frac(ExactSqrt(v.x * v.x + v.y * v.y + v.z * v.z,
                        Abs(v.x) + Abs(v.y) + Abs(v.z)), v.d)

\* v /= q.  numpy does not raise on a zero divisor: 0/0 is NaN
VDivBy(v, q) == Vec(v.x * q.d, v.y * q.d, v.z * q.d, v.d * q.n)

----------------------------------------------------------------------------
(* SolarReprojector.cartesian_to_spherical (one point)                     *)

\* lines 47-52 with nz left at the zeros of np.zeros_like
cartesian_to_spherical_flat(x, y, cx, cy, r) == Vec(x - cx, y - cy, 0, r)

cartesian_to_spherical(x, y, cx, cy, r) ==
    LET dx   == x - cx
        dy   == y - cy
        mask == dx * dx + dy * dy <= r * r
        nz   == IF mask THEN ExactSqrt(r * r - dx * dx - dy * dy, r) ELSE 0
    IN  Vec(dx, dy, nz, r)

\* north_2d = (-sin P0, -cos P0, 0)
North2d(p0) == Vec(0 - p0.s, 0 - p0.c, 0, p0.d)

----------------------------------------------------------------------------
(* SolarReprojector.rectify_patch_from_solar_orientation                   *)

\* v /= np.linalg.norm(v)
Normalize(v) == VDivBy(v, VNorm(v))

\* the unit normal n at pixel (x, y)   (lines 155-159, 198-202, 207-211)
UnitNormal(x, y, cx, cy, r) == Normalize(cartesian_to_spherical(x, y, cx, cy, r))

\* north_2d projected into the tangent plane at n and normalised
\* (lines 166-167, 217-218)
NorthTangent(north_2d, n) ==
    Normalize(VSub(north_2d, VScale(VDot(north_2d, n), n)))

\* x_axis = cross(y_axis, z_axis), normalised; R has the axes as columns
\* (lines 172-176, 222-225)
StackAxes(y_axis, z_axis) ==
    [x_axis |-> Normalize(VCross(y_axis, z_axis)),
     y_axis |-> y_axis,
     z_axis |-> z_axis]

\* line 170
RectifyYAxis(north_tangent) == VNeg(north_tangent)

\* lines 155-176: the matrix R of the rectification
RectifyBasis(ppx, ppy, cx, cy, r, p0) ==
    StackAxes(RectifyYAxis(NorthTangent(North2d(p0),
                                        UnitNormal(ppx, ppy, cx, cy, r))),
              UnitNormal(ppx, ppy, cx, cy, r))

\* np.linspace(-1, 1, scale)[i] * (scale / (2 * r))   (lines 179-181)
LocalGridCoord(i, scale, r) ==
    FracMul(Frac(2 * i - (scale - 1), scale - 1), Frac(scale, 2 * r))

\* lines 183-188: the source coordinate sampled for output pixel
\* (column i, row j); astype(float32) is not modelled
RemapCoord(R, i, j, scale, cx, cy, r) ==
    LET gx  == LocalGridCoord(i, scale, r)
        gy  == LocalGridCoord(j, scale, r)
        pgx == FracAdd(FracAdd(FracMul(gx, Rat(R.x_axis.x, R.x_axis.d)),
                               FracMul(gy, Rat(R.y_axis.x, R.y_axis.d))),
                       Frac(R.z_axis.x, R.z_axis.d))
        pgy == FracAdd(FracAdd(FracMul(gx, Rat(R.x_axis.y, R.x_axis.d)),
                               FracMul(gy, Rat(R.y_axis.y, R.y_axis.d))),
                       Frac(R.z_axis.y, R.z_axis.d))
    IN  [x |-> FracAdd(FracMul(pgx, FracInt(r)), FracInt(cx)),
         y |-> FracAdd(FracMul(pgy, FracInt(r)), FracInt(cy))]

----------------------------------------------------------------------------
(* SolarGridGenerator.generate_patch_grid and _rectify_point               *)

\* the clip test of process_lines with an inclusive upper bound
InPatchInclusive(gx, gy, patch_x, patch_y, psize) ==
    /\ patch_x <= gx /\ gx <= patch_x + psize
    /\ patch_y <= gy /\ gy <= patch_y + psize

\* lines 144-145
InPatch(gx, gy, patch_x, patch_y, psize) ==
    /\ patch_x <= gx /\ gx < patch_x + psize
    /\ patch_y <= gy /\ gy < patch_y + psize

\* y_axis without the negation
GridYAxisNorth(north_tangent) == north_tangent

\* line 220
GridYAxis(north_tangent) == VNeg(north_tangent)

\* lines 204-225: the matrix R of _rectify_point, built at the patch center
\* (patch_x + patch_size // 2, patch_y + patch_size // 2)
GridBasis(patch_x, patch_y, cx, cy, r, p0, psize) ==
    StackAxes(GridYAxis(NorthTangent(North2d(p0),
                  UnitNormal(patch_x + psize \div 2, patch_y + psize \div 2,
                             cx, cy, r))),
              UnitNormal(patch_x + psize \div 2, patch_y + psize \div 2,
                         cx, cy, r))

\* lines 228-234: local = R.T @ n, then rx = local[0] * r + patch_size / 2
LocalToPatch(R, n, r, psize) ==
    [x |-> FracAdd(FracMul(VDot(R.x_axis, n), FracInt(r)), Frac(psize, 2)),
     y |-> FracAdd(FracMul(VDot(R.y_axis, n), FracInt(r)), Frac(psize, 2))]

\* _rectify_point (lines 186-234): (rx, ry) of the point at patch-local
\* (px_local, py_local)
rectify_point(px_local, py_local, patch_x, patch_y, cx, cy, r, p0, psize) ==
    LocalToPatch(GridBasis(patch_x, patch_y, cx, cy, r, p0, psize),
                 UnitNormal(patch_x + px_local, patch_y + py_local, cx, cy, r),
                 r, psize)

\* line 161.  gx, gy record the global point the output point was made
\* from; the dict of the code holds x and y only.
PatchPoint(rp, pt) == [x |-> rp.x, y |-> rp.y, gx |-> pt.px, gy |-> pt.py]

\* lines 140-161: one global point, clipped and transformed
ProcessPoint(pt, patch_x, patch_y, psize, cx, cy, r, p0) ==
    IF ~InPatch(pt.px, pt.py, patch_x, patch_y, psize) THEN <<>>
    ELSE <<PatchPoint(rectify_point(pt.px - patch_x, pt.py - patch_y,
                                    patch_x, patch_y, cx, cy, r, p0, psize),
                      pt)>>

\* lines 139-161: the surviving points of one line, in order
RECURSIVE ProcessPoints(_, _, _, _, _, _, _, _)
ProcessPoints(pts, patch_x, patch_y, psize, cx, cy, r, p0) ==
    IF pts = <<>> THEN <<>>
    ELSE ProcessPoint(pts[1], patch_x, patch_y, psize, cx, cy, r, p0)
         \o ProcessPoints(Tail(pts), patch_x, patch_y, psize, cx, cy, r, p0)

\* lines 163-174: a line without surviving points is dropped
LineDict(line, new_line_pts) ==
    IF new_line_pts = <<>> THEN <<>>
    ELSE IF "lat" \in DOMAIN line
         THEN <<[points |-> new_line_pts, lat |-> line.lat]>>
    ELSE IF "lon" \in DOMAIN line
         THEN <<[points |-> new_line_pts, lon |-> line.lon]>>
    ELSE <<[points |-> new_line_pts]>>

\* process_lines (lines 133-176)
RECURSIVE process_lines(_, _, _, _, _, _, _, _)
process_lines(lines, patch_x, patch_y, psize, cx, cy, r, p0) ==
    IF lines = <<>> THEN <<>>
    ELSE LineDict(lines[1],
                  ProcessPoints(lines[1].points, patch_x, patch_y, psize,
                                cx, cy, r, p0))
         \o process_lines(Tail(lines), patch_x, patch_y, psize, cx, cy, r, p0)

generate_patch_grid(patch_x, patch_y, psize, cx, cy, r, p0, grid) ==
    [patch_lat_lines |-> process_lines(grid.lat_lines, patch_x, patch_y,
                                       psize, cx, cy, r, p0),
     patch_lon_lines |-> process_lines(grid.lon_lines, patch_x, patch_y,
                                       psize, cx, cy, r, p0)]

----------------------------------------------------------------------------
(* Bounded inputs of the merge pass                                        *)

MaxRegions == 3

\* centroids: 50 px, 230 px, 280 px and more apart
CandCenters == {<<300, 300>>, <<350, 300>>, <<580, 300>>, <<300, 580>>}

\* half width / half height of a component's bounding box
CandHalfSizes == {<<10, 10>>, <<150, 10>>, <<10, 150>>}

\* a region dict as detect_candidates builds it (lines 593-600)
Region(c, h) ==
    [cx |-> Rat(c[1], 1), cy |-> Rat(c[2], 1),
     min_x |-> c[1] - h[1], min_y |-> c[2] - h[2],
     max_x |-> c[1] + h[1], max_y |-> c[2] + h[2]]

Candidates == {Region(c, h) : c \in CandCenters, h \in CandHalfSizes}

RegionLists == UNION {[1..n -> Candidates] : n \in 0..MaxRegions}

\* (max_dist, max_size): the defaults of the signature and the values every
\* caller passes
MergeParams == {<<300, 512>>, <<200, 300>>}

----------------------------------------------------------------------------
(* Bounded inputs of the per-candidate body                                *)

\* The disk is scaled down from the working resolution (r about 900 in a
\* 2048 x 2048 image, patch_size 512) to r = 25 with patch sizes 14 and 15,
\* which keeps patch_size / r near 0.57 and covers even and odd sizes.
DiskGeometry == [cx |-> 40, cy |-> 40, r |-> 25]

PatchSizes == {14, 15}

\* P0 = 0, +-16.26 and +-22.62 degrees: angles with rational sine and cosine
\* inside the range of the position angle (about +-26.3 degrees)
P0Values == {[s |-> 0, c |-> 1, d |-> 1],
             [s |-> 7, c |-> 24, d |-> 25], [s |-> 0 - 7, c |-> 24, d |-> 25],
             [s |-> 5, c |-> 12, d |-> 13], [s |-> 0 - 5, c |-> 12, d |-> 13]}

\* offsets <<a, b>> from the disk center of the on-disk pixels whose sphere
\* normal is rational
ExactOffsets ==
    LET r == DiskGeometry.r
    IN  {o \in (0 - r..r) \X (0 - r..r) :
            /\ o[1] * o[1] + o[2] * o[2] <= r * r
            /\ IsSquare(r * r - o[1] * o[1] - o[2] * o[2], r)}

\* offsets at which the tangent basis for p0 is rational as well
ExactCenters(p0) ==
    LET r == DiskGeometry.r
        q == p0.d * r
    IN  {o \in ExactOffsets :
            IsSquare(q * q - (p0.s * o[1] + p0.c * o[2])
                             * (p0.s * o[1] + p0.c * o[2]), q)}

\* fractional parts of a candidate center (np.mean, centroids)
CenterFractions == {Rat(0, 1), Rat(1, 2)}

RECURSIVE SortedSeq(_)
SortedSeq(S) ==
    IF S = {} THEN <<>>
    ELSE LET m == CHOOSE v \in S : \A w \in S : v <= w
         IN  <<m>> \o SortedSeq(S \ {m})

GridPoint(o) == [px |-> DiskGeometry.cx + o[1], py |-> DiskGeometry.cy + o[2]]

\* one line per row of offsets (lat) and per column (lon), points in order
RowLine(offs, b) ==
    LET as == SortedSeq({o[1] : o \in {p \in offs : p[2] = b}})
    IN  [lat |-> b, points |-> [k \in DOMAIN as |-> GridPoint(<<as[k], b>>)]]

ColLine(offs, a) ==
    LET bs == SortedSeq({o[2] : o \in {p \in offs : p[1] = a}})
    IN  [lon |-> a, points |-> [k \in DOMAIN bs |-> GridPoint(<<a, bs[k]>>)]]

GridOf(offs) ==
    LET rows == SortedSeq({o[2] : o \in offs})
        cols == SortedSeq({o[1] : o \in offs})
    IN  [lat_lines |-> [k \in DOMAIN rows |-> RowLine(offs, rows[k])],
         lon_lines |-> [k \in DOMAIN cols |-> ColLine(offs, cols[k])]]

\* a dense grid through every exact on-disk pixel, and the grid of B0 = 0,
\* P0 = 0 reduced to its equator and central meridian
GlobalGrids ==
    {GridOf(ExactOffsets),
     GridOf({o \in ExactOffsets : o[1] = 0 \/ o[2] = 0})}

NoBasis == [x_axis |-> Vec(0, 0, 0, 0), y_axis |-> Vec(0, 0, 0, 0),
            z_axis |-> Vec(0, 0, 0, 0)]

\* int(x) of a non-NaN float
IntTrunc(q) == IF q.n >= 0 THEN q.n \div q.d ELSE 0 - ((0 - q.n) \div q.d)

----------------------------------------------------------------------------
(* Bounded inputs of the pipeline control flow                             *)

MaxImages == 2

\* the lists detect_candidates may return: none, one, two that merge under
\* (200, 300), two that stay apart
PipeRegionLists ==
    {<<>>,
     <<Region(<<300, 300>>, <<10, 10>>)>>,
     <<Region(<<300, 300>>, <<10, 10>>), Region(<<350, 300>>, <<10, 10>>)>>,
     <<Region(<<300, 300>>, <<10, 10>>), Region(<<580, 300>>, <<10, 10>>)>>}

\* what the OpenCV calls make of an image file: whether cv2.imread decodes
\* it, whether cv2.HoughCircles finds a circle, and the regions of its mask
ImageKinds ==
    {[readable |-> FALSE, circle |-> FALSE, regs |-> <<>>],
     [readable |-> TRUE, circle |-> FALSE, regs |-> <<>>]}
    \cup {[readable |-> TRUE, circle |-> TRUE, regs |-> l] : l \in PipeRegionLists}

----------------------------------------------------------------------------
(* Idle values of the parts a specification does not run                  *)

MergeIdle ==
    /\ regions = <<>>
    /\ max_dist = 0
    /\ max_size = 0
    /\ merged = <<>>
    /\ groups = <<>>
    /\ mpc = "idle"

GeoIdle ==
    /\ disk = DiskGeometry
    /\ P0 = [s |-> 0, c |-> 1, d |-> 1]
    /\ cand = [cx |-> Rat(0, 1), cy |-> Rat(0, 1)]
    /\ patch_size = 0
    /\ global_grid = [lat_lines |-> <<>>, lon_lines |-> <<>>]
    /\ px = 0 /\ py = 0
    /\ R_rect = NoBasis
    /\ remap = <<>>
    /\ patch_grid = [patch_lat_lines |-> <<>>, patch_lon_lines |-> <<>>]
    /\ grid_R = {}
    /\ gpc = "idle"

PipeIdle ==
    /\ entry = "idle"
    /\ images = <<>>
    /\ img_i = 0
    /\ ppc = "idle"
    /\ candidates = [set |-> FALSE, list |-> <<>>]
    /\ merged_candidates = <<>>
    /\ cand_k = 0
    /\ patch_results = <<>>
    /\ written = <<>>
    /\ processed = {}
    /\ error = "none"

GridIdle ==
    /\ orient = [B0 |-> [s |-> 0, c |-> 1, d |-> 1],
                 P0 |-> [s |-> 0, c |-> 1, d |-> 1],
                 L0 |-> [s |-> 0, c |-> 1, d |-> 1]]
    /\ lat_lines = <<>>
    /\ lon_lines = <<>>
    /\ line_k = 0
    /\ gridpc = "idle"

LoopIdle ==
    /\ loop_cands = <<>>
    /\ loop_P0 = [s |-> 0, c |-> 1, d |-> 1]
    /\ loop_size = 0
    /\ loop_grid = [lat_lines |-> <<>>, lon_lines |-> <<>>]
    /\ encodes = <<>>
    /\ todo = {}
    /\ frames = <<>>
    /\ results = <<>>
    /\ looppc = "idle"

SphereIdle ==
    /\ sph_in = [x |-> 0, y |-> 0]
    /\ sph_out = Vec(0, 0, 0, 0)
    /\ sphpc = "idle"

OrientIdle ==
    /\ o_dt = [Y |-> 2000, M |-> 1, D |-> 1, H |-> 12, h |-> 0, s |-> 0]
    /\ o_jde = [q |-> 0, r |-> 0]
    /\ o_sun = [SL |-> 0, R |-> 0, Epsilon |-> 0]
    /\ o_out = [B0 |-> 0, P0 |-> 0, L0 |-> 0]
    /\ opc = "idle"

RateIdle ==
    /\ clock = 0
    /\ redis_up = FALSE
    /\ redis_available = FALSE
    /\ redis_keys = <<>>
    /\ fallback_storage = <<>>
    /\ forwarded = <<>>
    /\ last_response = [ip |-> "none", path |-> <<>>, status |-> 0,
                        passed |-> FALSE]

TrainIdle ==
    /\ training_status = [is_running |-> FALSE, job_id |-> 0,
                          status |-> "idle", current_epoch |-> 0]
    /\ train_threads = {}
    /\ train_reqs = <<>>
    /\ loop_task = 0
    /\ dataset_ready = FALSE

SegIdle ==
    /\ seg_image = <<>>
    /\ seg_disk = {}
    /\ otsu_pixels = {}
    /\ thresholds = <<>>
    /\ segmented = <<>>
    /\ binarized = <<>>
    /\ segpc = "done"

DetIdle ==
    /\ det_mask = {}
    /\ det_disk = {}
    /\ det_regions = <<>>
    /\ displayed = <<>>
    /\ detpc = "done"

CoordIdle ==
    /\ co_gray = [size |-> 0]
    /\ co_resized = [size |-> 0]
    /\ co_disk = <<0, 0, 0>>
    /\ co_cand = <<0, 0>>
    /\ co_call = <<>>
    /\ copc = "done"

JobIdle ==
    /\ job_pc = "none"
    /\ job_no = 0
    /\ run_status = [is_running |-> FALSE, status |-> "idle",
                     finished_at |-> FALSE]
    /\ active_model = 0
    /\ active_before = 0
    /\ archive_files = {}
    /\ model_cache = 0
    /\ model_lock = 0
    /\ cache_reqs = <<>>

AuthIdle ==
    /\ user_row = [login_attempts |-> 0, locked |-> FALSE]
    /\ auth_sessions = <<>>
    /\ failures = 0

CoreIdle == MergeIdle /\ GeoIdle /\ PipeIdle

ExtIdle == GridIdle /\ LoopIdle /\ SphereIdle /\ OrientIdle /\ RateIdle /\
    TrainIdle /\ SegIdle /\ DetIdle /\ CoordIdle /\ JobIdle /\ AuthIdle

GridOthersIdle == CoreIdle /\ LoopIdle /\ SphereIdle /\ OrientIdle /\
    RateIdle /\ TrainIdle /\ SegIdle /\ DetIdle /\ CoordIdle /\ JobIdle /\
    AuthIdle

LoopOthersIdle == CoreIdle /\ GridIdle /\ SphereIdle /\ OrientIdle /\
    RateIdle /\ TrainIdle /\ SegIdle /\ DetIdle /\ CoordIdle /\ JobIdle /\
    AuthIdle

SphereOthersIdle == CoreIdle /\ GridIdle /\ LoopIdle /\ OrientIdle /\
    RateIdle /\ TrainIdle /\ SegIdle /\ DetIdle /\ CoordIdle /\ JobIdle /\
    AuthIdle

OrientOthersIdle == CoreIdle /\ GridIdle /\ LoopIdle /\ SphereIdle /\
    RateIdle /\ TrainIdle /\ SegIdle /\ DetIdle /\ CoordIdle /\ JobIdle /\
    AuthIdle

RateOthersIdle == CoreIdle /\ GridIdle /\ LoopIdle /\ SphereIdle /\
    OrientIdle /\ TrainIdle /\ SegIdle /\ DetIdle /\ CoordIdle /\
    JobIdle /\ AuthIdle

TrainOthersIdle == CoreIdle /\ GridIdle /\ LoopIdle /\ SphereIdle /\
    OrientIdle /\ RateIdle /\ SegIdle /\ DetIdle /\ CoordIdle /\ JobIdle /\
    AuthIdle

SegOthersIdle == CoreIdle /\ GridIdle /\ LoopIdle /\ SphereIdle /\
    OrientIdle /\ RateIdle /\ TrainIdle /\ DetIdle /\ CoordIdle /\
    JobIdle /\ AuthIdle

DetOthersIdle == CoreIdle /\ GridIdle /\ LoopIdle /\ SphereIdle /\
    OrientIdle /\ RateIdle /\ TrainIdle /\ SegIdle /\ CoordIdle /\
    JobIdle /\ AuthIdle

CoordOthersIdle == CoreIdle /\ GridIdle /\ LoopIdle /\ SphereIdle /\
    OrientIdle /\ RateIdle /\ TrainIdle /\ SegIdle /\ DetIdle /\ JobIdle /\
    AuthIdle

JobOthersIdle == CoreIdle /\ GridIdle /\ LoopIdle /\ SphereIdle /\
    OrientIdle /\ RateIdle /\ TrainIdle /\ SegIdle /\ DetIdle /\
    CoordIdle /\ AuthIdle

AuthOthersIdle == CoreIdle /\ GridIdle /\ LoopIdle /\ SphereIdle /\
    OrientIdle /\ RateIdle /\ TrainIdle /\ SegIdle /\ DetIdle /\
    CoordIdle /\ JobIdle

----------------------------------------------------------------------------
(* MergeSpec                                                               *)

MergeInit ==
    /\ regions \in RegionLists
    /\ \E p \in MergeParams : max_dist = p[1] /\ max_size = p[2]
    /\ merged = <<>>
    /\ groups = <<>>
    /\ mpc = "call"
    /\ GeoIdle
    /\ PipeIdle
    /\ ExtIdle

CallMerge ==
    /\ mpc = "call"
    /\ LET res == merge_nearby_candidates(regions, max_dist, max_size)
       IN  /\ merged' = res.merged
           /\ groups' = res.groups
           /\ regions' = res.regions
    /\ mpc' = "done"
    /\ UNCHANGED <<max_dist, max_size>>
    /\ UNCHANGED <<geoVars, pipeVars, extVars>>

MergeNext == CallMerge

MergeSpec == MergeInit /\ [][MergeNext]_vars

----------------------------------------------------------------------------
(* GeoSpec                                                                 *)

GeoInit ==
    /\ disk = DiskGeometry
    /\ P0 \in P0Values
    /\ \E o \in ExactCenters(P0), f \in CenterFractions :
          cand = [cx |-> FracAdd(FracInt(disk.cx + o[1]), f),
                  cy |-> FracAdd(FracInt(disk.cy + o[2]), f)]
    /\ patch_size \in PatchSizes
    /\ global_grid \in GlobalGrids
    /\ px = 0 /\ py = 0
    /\ R_rect = NoBasis
    /\ remap = <<>>
    /\ patch_grid = [patch_lat_lines |-> <<>>, patch_lon_lines |-> <<>>]
    /\ grid_R = {}
    /\ gpc = "start"
    /\ MergeIdle
    /\ PipeIdle
    /\ ExtIdle

\* process_single_image lines 175-178 with the body of
\* rectify_patch_from_solar_orientation up to the remap coordinates
RectifyPatch ==
    /\ gpc = "start"
    /\ px' = IntTrunc(cand.cx)
    /\ py' = IntTrunc(cand.cy)
    /\ R_rect' = RectifyBasis(px', py', disk.cx, disk.cy, disk.r, P0)
    /\ remap' = [ij \in (0..patch_size - 1) \X (0..patch_size - 1) |->
                    RemapCoord(R_rect', ij[1], ij[2], patch_size,
                               disk.cx, disk.cy, disk.r)]
    /\ gpc' = "rectified"
    /\ UNCHANGED <<disk, P0, cand, patch_size, global_grid, patch_grid, grid_R>>
    /\ UNCHANGED <<mergeVars, pipeVars, extVars>>

LinePoints(lines) ==
    UNION {{lines[k].points[m] : m \in DOMAIN lines[k].points} : k \in DOMAIN lines}

\* process_single_image lines 180-192 with generate_patch_grid
PatchGrid ==
    /\ gpc = "rectified"
    /\ patch_grid' = generate_patch_grid(px - patch_size \div 2,
                                         py - patch_size \div 2, patch_size,
                                         disk.cx, disk.cy, disk.r, P0,
                                         global_grid)
    /\ grid_R' = IF /\ patch_grid'.patch_lat_lines = <<>>
                    /\ patch_grid'.patch_lon_lines = <<>>
                 THEN {}
                 ELSE {GridBasis(px - patch_size \div 2, py - patch_size \div 2,
                                 disk.cx, disk.cy, disk.r, P0, patch_size)}
    /\ gpc' = "done"
    /\ UNCHANGED <<disk, P0, cand, patch_size, global_grid, px, py, R_rect, remap>>
    /\ UNCHANGED <<mergeVars, pipeVars, extVars>>

GeoNext == RectifyPatch \/ PatchGrid

GeoSpec == GeoInit /\ [][GeoNext]_vars

----------------------------------------------------------------------------
(* PipeSpec                                                                *)

\* ImageProcessor.detect_sun_disk: the first circle, or None
detect_sun_disk(img) ==
    IF img.circle THEN [none |-> FALSE, circle |-> DiskGeometry]
    ELSE [none |-> TRUE, circle |-> DiskGeometry]

\* the loop over merged_candidates is entered once even when it is empty
HasNextCandidateOnce(k, cands) == k <= Len(cands) \/ k = 1

\* for cand in merged_candidates
HasNextCandidate(k, cands) == k <= Len(cands)

PipeInit ==
    /\ \/ /\ entry = "single"
          /\ \E img \in {k \in ImageKinds : k.readable} : images = <<img>>
          /\ img_i = 1
          /\ ppc = "loaded"
          /\ processed = {1}
       \/ /\ entry = "dataset"
          /\ images \in UNION {[1..n -> ImageKinds] : n \in 0..MaxImages}
          /\ img_i = 0
          /\ ppc = "next"
          /\ processed = {}
    /\ candidates = [set |-> FALSE, list |-> <<>>]
    /\ merged_candidates = <<>>
    /\ cand_k = 0
    /\ patch_results = <<>>
    /\ written = <<>>
    /\ error = "none"
    /\ MergeIdle
    /\ GeoIdle
    /\ ExtIdle

\* process_dataset lines 227-232: the next file of the glob is read;
\* read_normal_image raises ValueError when cv2.imread returns None
ReadImage ==
    /\ entry = "dataset"
    /\ ppc = "next"
    /\ img_i < Len(images)
    /\ img_i' = img_i + 1
    /\ processed' = processed \cup {img_i + 1}
    /\ candidates' = [set |-> FALSE, list |-> <<>>]
    /\ merged_candidates' = <<>>
    /\ cand_k' = 0
    /\ IF images[img_i + 1].readable
       THEN ppc' = "loaded" /\ error' = error
       ELSE ppc' = "raised" /\ error' = "ValueError"
    /\ UNCHANGED <<entry, images, patch_results, written>>
    /\ UNCHANGED <<mergeVars, geoVars, extVars>>

\* process_image_through_segmentation_pipeline_v3: `cx, cy, r = None`
\* raises TypeError when detect_sun_disk found no circle (line 117)
Segment ==
    /\ ppc = "loaded"
    /\ IF detect_sun_disk(images[img_i]).none
       THEN ppc' = "raised" /\ error' = "TypeError"
       ELSE ppc' = "segmented" /\ error' = error
    /\ UNCHANGED <<entry, images, img_i, candidates, merged_candidates, cand_k,
                   patch_results, written, processed>>
    /\ UNCHANGED <<mergeVars, geoVars, extVars>>

\* lines 164-169 (236-237): detect_candidates, merge_nearby_candidates and,
\* in process_single_image, the global grid
DetectAndMerge ==
    /\ ppc = "segmented"
    /\ candidates' = [set |-> TRUE, list |-> images[img_i].regs]
    /\ merged_candidates' =
           merge_nearby_candidates(images[img_i].regs, 200, 300).merged
    /\ cand_k' = 1
    /\ ppc' = "loop"
    /\ UNCHANGED <<entry, images, img_i, patch_results, written, processed,
                   error>>
    /\ UNCHANGED <<mergeVars, geoVars, extVars>>

\* one iteration of the loop over merged_candidates (lines 174-209,
\* 239-244); a failed cv2.imencode skips the candidate
ProcessCandidate ==
    /\ ppc = "loop"
    /\ HasNextCandidate(cand_k, merged_candidates)
    /\ IF cand_k > Len(merged_candidates)
       THEN /\ ppc' = "raised" /\ error' = "IndexError"
            /\ UNCHANGED <<cand_k, patch_results, written>>
       ELSE LET c == merged_candidates[cand_k]
                p == [px |-> IntTrunc(c.cx), py |-> IntTrunc(c.cy)]
            IN  /\ cand_k' = cand_k + 1
                /\ UNCHANGED <<ppc, error>>
                /\ IF entry = "single"
                   THEN /\ \E success \in BOOLEAN :
                              patch_results' = IF success
                                               THEN Append(patch_results, p)
                                               ELSE patch_results
                        /\ UNCHANGED written
                   ELSE /\ written' = Append(written,
                                [img |-> img_i, px |-> p.px, py |-> p.py])
                        /\ UNCHANGED patch_results
    /\ UNCHANGED <<entry, images, img_i, candidates, merged_candidates,
                   processed>>
    /\ UNCHANGED <<mergeVars, geoVars, extVars>>

\* the loop over merged_candidates is exhausted: process_single_image
\* returns {"patches": patch_results}, process_dataset goes to the next file
FinishImage ==
    /\ ppc = "loop"
    /\ ~HasNextCandidate(cand_k, merged_candidates)
    /\ ppc' = IF entry = "single" THEN "returned" ELSE "next"
    /\ UNCHANGED <<entry, images, img_i, candidates, merged_candidates, cand_k,
                   patch_results, written, processed, error>>
    /\ UNCHANGED <<mergeVars, geoVars, extVars>>

\* process_dataset: the glob is exhausted
DatasetDone ==
    /\ entry = "dataset"
    /\ ppc = "next"
    /\ img_i = Len(images)
    /\ ppc' = "returned"
    /\ UNCHANGED <<entry, images, img_i, candidates, merged_candidates, cand_k,
                   patch_results, written, processed, error>>
    /\ UNCHANGED <<mergeVars, geoVars, extVars>>

PipeNext ==
    \/ ReadImage
    \/ Segment
    \/ DetectAndMerge
    \/ ProcessCandidate
    \/ FinishImage
    \/ DatasetDone

PipeSpec == PipeInit /\ [][PipeNext]_vars

----------------------------------------------------------------------------
(* Claims on the merge pass                                                *)

GroupOf(g) == [k \in DOMAIN g.members |-> regions[g.members[k]]]

IsUnionBox(c, group) ==
    /\ \A k \in DOMAIN group :
          /\ c.min_x <= group[k].min_x /\ c.min_y <= group[k].min_y
          /\ c.max_x >= group[k].max_x /\ c.max_y >= group[k].max_y
    /\ \E k \in DOMAIN group : c.min_x = group[k].min_x
    /\ \E k \in DOMAIN group : c.min_y = group[k].min_y
    /\ \E k \in DOMAIN group : c.max_x = group[k].max_x
    /\ \E k \in DOMAIN group : c.max_y = group[k].max_y

IsMeanCenter(c, group) ==
    LET s == SeqSumRat([k \in DOMAIN group |-> group[k].cx])
        t == SeqSumRat([k \in DOMAIN group |-> group[k].cy])
    IN  /\ c.cx.n * s.d * Len(group) = s.n * c.cx.d
        /\ c.cy.n * t.d * Len(group) = t.n * c.cy.d

UnionFits(group) ==
    /\ \A a, b \in DOMAIN group : group[a].max_x - group[b].min_x <= max_size
    /\ \A a, b \in DOMAIN group : group[a].max_y - group[b].min_y <= max_size

\* C1: every group whose union box fits into max_size x max_size yields
\* exactly one output candidate: center = arithmetic mean of the members'
\* centers, bounding box = min/max union of the members' boxes.
C1_MergeMeanUnion ==
    mpc = "done" =>
        \A gi \in DOMAIN groups :
            LET g == groups[gi] IN
            UnionFits(GroupOf(g)) =>
                /\ g.count = 1
                /\ IsMeanCenter(merged[g.first], GroupOf(g))
                /\ IsUnionBox(merged[g.first], GroupOf(g))

\* two candidates 50 px apart were merged under (300, 512)
C1_Witness ==
    /\ mpc = "done"
    /\ max_dist = 300 /\ max_size = 512
    /\ Len(regions) = 2
    /\ regions[1].cx.n = 300 /\ regions[2].cx.n = 350
    /\ regions[1].cy = regions[2].cy
    /\ Len(merged) = 1
    /\ merged[1].cx = Rat(650, 2)

\* C2: a group whose union box exceeds max_size in width or height emits
\* no merged candidate; each member is output unchanged, in group order.
C2_RejectOversize ==
    mpc = "done" =>
        \A gi \in DOMAIN groups :
            LET g == groups[gi] IN
            ~UnionFits(GroupOf(g)) =>
                /\ g.count = Len(g.members)
                /\ \A k \in DOMAIN g.members :
                      merged[g.first + k - 1] = regions[g.members[k]]

\* a group of two near candidates was rejected and both came back unmerged
C2_Witness ==
    /\ mpc = "done"
    /\ \E gi \in DOMAIN groups :
          /\ Len(groups[gi].members) = 2
          /\ groups[gi].rejected
          /\ groups[gi].count = 2
          /\ regions[groups[gi].members[1]].cx # regions[groups[gi].members[2]].cx

----------------------------------------------------------------------------
(* Claims on the patch grid and the rectification                          *)

PatchLines == patch_grid.patch_lat_lines \o patch_grid.patch_lon_lines

PatchPoints == LinePoints(PatchLines)

GlobalPoints == LinePoints(global_grid.lat_lines \o global_grid.lon_lines)

\* C3: no global grid point outside the patch's bounding box
\* [patch_x, patch_x + patch_size) x [patch_y, patch_y + patch_size)
\* contributes a point to patch_lat_lines or patch_lon_lines.
C3_ClipToPatch ==
    gpc = "done" =>
        \A p \in PatchPoints :
            /\ px - patch_size \div 2 <= p.gx
            /\ p.gx < px - patch_size \div 2 + patch_size
            /\ py - patch_size \div 2 <= p.gy
            /\ p.gy < py - patch_size \div 2 + patch_size

\* the grid has a point just beyond the right edge of the patch, it was
\* dropped, and a point on the left edge was kept
C3_Witness ==
    /\ gpc = "done"
    /\ \E g \in GlobalPoints :
          /\ g.px = px - patch_size \div 2 + patch_size
          /\ g.py = py
          /\ \A p \in PatchPoints : ~(p.gx = g.px /\ p.gy = g.py)
    /\ \E p \in PatchPoints : p.gx = px - patch_size \div 2

FracInRange(q, lo, hi) ==
    /\ q.d > 0
    /\ lo * q.d <= q.n
    /\ q.n < hi * q.d

\* C4: every reported patch-grid point has x and y in [0, patch_size).
C4_PointsInsidePatch ==
    gpc = "done" =>
        \A p \in PatchPoints :
            /\ FracInRange(p.x, 0, patch_size)
            /\ FracInRange(p.y, 0, patch_size)

\* C5: the output's center pixel samples the source pixel (px, py), and the
\* patch grid places (px, py) on that same pixel.
C5_AnchorRoundTrip ==
    gpc = "done" =>
        LET c == patch_size \div 2
            a == rectify_point(c, c, px - c, py - c, disk.cx, disk.cy,
                               disk.r, P0, patch_size)
        IN  /\ remap[<<c, c>>] = [x |-> FracInt(px), y |-> FracInt(py)]
            /\ a = [x |-> FracInt(c), y |-> FracInt(c)]

\* C6: the rotation used for the patch grid is the rotation used to
\* resample the patch.
C6_SameBasis ==
    gpc = "done" => \A R \in grid_R : R = R_rect

\* a patch off the disk center, P0 # 0, with grid points in it
C6_Witness ==
    /\ gpc = "done"
    /\ grid_R # {}
    /\ P0.s # 0
    /\ px # disk.cx /\ py # disk.cy
    /\ ~VecIsNaN(R_rect.x_axis)

\* north is parallel to the normal at (px, py)
DegenerateNorth ==
    LET q == VDot(North2d(P0), UnitNormal(px, py, disk.cx, disk.cy, disk.r))
    IN  q.d # 0 /\ q.n * q.n = q.d * q.d

AxisAligned(v) ==
    /\ v.d = 1
    /\ Abs(v.x) + Abs(v.y) + Abs(v.z) = 1

\* C10: when the north tangent has norm zero, both the rectification and
\* the patch grid use an axis-aligned basis (no division by zero).
C10_DegenerateFallback ==
    (gpc = "done" /\ DegenerateNorth) =>
        /\ AxisAligned(R_rect.x_axis)
        /\ AxisAligned(R_rect.y_axis)
        /\ \A R \in grid_R : AxisAligned(R.x_axis) /\ AxisAligned(R.y_axis)

----------------------------------------------------------------------------
(* Claims on the pipeline control flow                                     *)

CurImage == images[img_i]

WrittenFor(i) == SelectSeq(written, LAMBDA w : w.img = i)

\* C7: without a circle, disk location fails with NoDiskFoundError; the run
\* on that image ends there, with no candidates extracted and no patches.
C7_NoDiskFatal ==
    (img_i \in DOMAIN images /\ CurImage.readable /\ ~CurImage.circle) =>
        /\ ppc \in {"loaded", "raised"}
        /\ ppc = "raised" =>
              /\ error = "NoDiskFoundError"
              /\ ~candidates.set
              /\ patch_results = <<>>
              /\ WrittenFor(img_i) = <<>>

\* C8: with zero candidate regions the run on the image raises nothing and
\* yields zero patches.
C8_EmptyCandidateSet ==
    (img_i \in DOMAIN images /\ CurImage.readable /\ CurImage.circle
        /\ CurImage.regs = <<>>) =>
        /\ ppc # "raised"
        /\ error = "none"
        /\ patch_results = <<>>
        /\ WrittenFor(img_i) = <<>>

\* process_single_image returned for an image without candidate regions
C8_Witness ==
    /\ entry = "single"
    /\ ppc = "returned"
    /\ CurImage.circle
    /\ candidates.set /\ candidates.list = <<>>
    /\ patch_results = <<>>
    /\ error = "none"

\* C9: when process_dataset has ended, every image of the batch has been
\* processed, also the images after one whose processing raised.
C9_BatchContinues ==
    (entry = "dataset" /\ ppc \in {"raised", "returned"}) =>
        processed = DOMAIN images

----------------------------------------------------------------------------
(* GridSpec: generate_global_grid_15deg.  An angle is [s, c, d] with       *)
(* sin = s/d and cos = c/d; the grid values and the linspace samples are   *)
(* taken among the angles whose sine and cosine are rational.              *)

Angle(s, c, d) == [s |-> s, c |-> c, d |-> d]

\* a - b, by the subtraction formulas
AngSub(a, b) ==
    Angle((a.s * b.c - a.c * b.s) \div GCD(a.d * b.d,
              GCD(Abs(a.s * b.c - a.c * b.s), Abs(a.c * b.c + a.s * b.s))),
          (a.c * b.c + a.s * b.s) \div GCD(a.d * b.d,
              GCD(Abs(a.s * b.c - a.c * b.s), Abs(a.c * b.c + a.s * b.s))),
          (a.d * b.d) \div GCD(a.d * b.d,
              GCD(Abs(a.s * b.c - a.c * b.s), Abs(a.c * b.c + a.s * b.s))))

\* the point of the unit sphere at (lat, l), l the longitude from the
\* central meridian, seen with the disk center at latitude B0:
\* x to the west, y to the north, z to the observer
SpherePoint(lat, l, B0) ==
    Vec(lat.c * l.s * B0.d,
        lat.s * B0.c * l.d - lat.c * l.c * B0.s,
        lat.s * B0.s * l.d + lat.c * l.c * B0.c,
        lat.d * l.d * B0.d)

\* rotation by P0 into image axes (north along (-sin P0, -cos P0)), scaled
\* by r around (cx, cy); valid on the near hemisphere and on the disk
ProjectToImage(p, p0, cx, cy, r) ==
    [px |-> FracAdd(FracInt(cx),
                    Frac(r * (p.x * p0.c - p.y * p0.s), p.d * p0.d)),
     py |-> FracAdd(FracInt(cy),
                    Frac(0 - r * (p.x * p0.s + p.y * p0.c), p.d * p0.d)),
     valid |-> /\ p.z >= 0
               /\ p.x * p.x + p.y * p.y <= p.d * p.d]

\* SolarReprojector.heliographic_to_image(lat, lon, B0, P0, L0, cx, cy, r)
heliographic_to_image(lat, lon, B0, p0, L0, cx, cy, r) ==
    ProjectToImage(SpherePoint(lat, AngSub(lon, L0), B0), p0, cx, cy, r)

\* lines 68-69, 91-92 with every sample appended
AppendAlways(points, proj) ==
    Append(points, [px |-> proj.px, py |-> proj.py])

\* lines 68-69, 91-92: if valid: points.append({"px": ..., "py": ...})
AppendIfValid(points, proj) ==
    IF proj.valid THEN Append(points, [px |-> proj.px, py |-> proj.py])
    ELSE points

\* lines 57-69: the inner loop of a latitude line over lon_samples
RECURSIVE LatLinePoints(_, _, _, _, _)
LatLinePoints(lat, lons, o, g, points) ==
    IF lons = <<>> THEN points
    ELSE LatLinePoints(lat, Tail(lons), o, g,
             AppendIfValid(points,
                 heliographic_to_image(lat, lons[1], o.B0, o.P0, o.L0,
                                       g.cx, g.cy, g.r)))

\* lines 80-92: the inner loop of a longitude line over lat_samples
RECURSIVE LonLinePoints(_, _, _, _, _)
LonLinePoints(lon, lats, o, g, points) ==
    IF lats = <<>> THEN points
    ELSE LonLinePoints(lon, Tail(lats), o, g,
             AppendIfValid(points,
                 heliographic_to_image(lats[1], lon, o.B0, o.P0, o.L0,
                                       g.cx, g.cy, g.r)))

\* lines 71-72: if points: lat_lines.append({"lat": ..., "points": points})
AppendLatLine(lines, lat, points) ==
    IF points = <<>> THEN lines
    ELSE Append(lines, [lat |-> lat, points |-> points])

\* lines 94-95
AppendLonLine(lines, lon, points) ==
    IF points = <<>> THEN lines
    ELSE Append(lines, [lon |-> lon, points |-> points])

\* np.arange(-75, 90, 15), here -53.13, 0, 36.87 degrees
lat_values == <<Angle(0 - 4, 3, 5), Angle(0, 1, 1), Angle(3, 4, 5)>>

\* np.arange(-180, 195, 15), here -180, -36.87, 0, 90, 180 degrees
lon_values == <<Angle(0, 0 - 1, 1), Angle(0 - 3, 4, 5), Angle(0, 1, 1),
                Angle(1, 0, 1), Angle(0, 0 - 1, 1)>>

\* np.linspace(-180, 180, num_points), here nine samples from -180 to 180
lon_samples == <<Angle(0, 0 - 1, 1), Angle(0 - 4, 0 - 3, 5), Angle(0 - 1, 0, 1),
                 Angle(0 - 3, 4, 5), Angle(0, 1, 1), Angle(3, 4, 5),
                 Angle(1, 0, 1), Angle(4, 0 - 3, 5), Angle(0, 0 - 1, 1)>>

\* np.linspace(-90, 90, num_points), here seven samples from -90 to 90
lat_samples == <<Angle(0 - 1, 0, 1), Angle(0 - 4, 3, 5), Angle(0 - 3, 4, 5),
                 Angle(0, 1, 1), Angle(3, 4, 5), Angle(4, 3, 5),
                 Angle(1, 0, 1)>>

\* the orientations SolarOrientation.from_datetime(dt) is taken from
B0Values == {Angle(0, 1, 1), Angle(7, 24, 25), Angle(0 - 7, 24, 25)}

L0Values == {Angle(0, 1, 1), Angle(1, 0, 1), Angle(0, 0 - 1, 1),
             Angle(0 - 1, 0, 1)}

GridInit ==
    /\ \E b \in B0Values, p \in P0Values, l \in L0Values :
          orient = [B0 |-> b, P0 |-> p, L0 |-> l]
    /\ lat_lines = <<>>
    /\ lon_lines = <<>>
    /\ line_k = 1
    /\ gridpc = "lat"
    /\ GridOthersIdle

\* one iteration of the loop of lines 52-72
GridLatLine ==
    /\ gridpc = "lat"
    /\ line_k <= Len(lat_values)
    /\ lat_lines' = AppendLatLine(lat_lines, lat_values[line_k],
                        LatLinePoints(lat_values[line_k], lon_samples,
                                      orient, DiskGeometry, <<>>))
    /\ line_k' = line_k + 1
    /\ UNCHANGED <<orient, lon_lines, gridpc>>
    /\ UNCHANGED gridOthers

\* the loop of lines 52-72 ends, the loop of lines 75-95 starts
GridLatDone ==
    /\ gridpc = "lat"
    /\ line_k > Len(lat_values)
    /\ line_k' = 1
    /\ gridpc' = "lon"
    /\ UNCHANGED <<orient, lat_lines, lon_lines>>
    /\ UNCHANGED gridOthers

\* one iteration of the loop of lines 75-95
GridLonLine ==
    /\ gridpc = "lon"
    /\ line_k <= Len(lon_values)
    /\ lon_lines' = AppendLonLine(lon_lines, lon_values[line_k],
                        LonLinePoints(lon_values[line_k], lat_samples,
                                      orient, DiskGeometry, <<>>))
    /\ line_k' = line_k + 1
    /\ UNCHANGED <<orient, lat_lines, gridpc>>
    /\ UNCHANGED gridOthers

\* lines 97-100: return {"lat_lines": lat_lines, "lon_lines": lon_lines}
GridReturn ==
    /\ gridpc = "lon"
    /\ line_k > Len(lon_values)
    /\ gridpc' = "done"
    /\ UNCHANGED <<orient, lat_lines, lon_lines, line_k>>
    /\ UNCHANGED gridOthers

GridNext == GridLatLine \/ GridLatDone \/ GridLonLine \/ GridReturn

GridSpec == GridInit /\ [][GridNext]_vars

\* the forward projection of sample k of the line of latitude lat
LatSample(lat, k) ==
    heliographic_to_image(lat, lon_samples[k], orient.B0, orient.P0,
                          orient.L0, DiskGeometry.cx, DiskGeometry.cy,
                          DiskGeometry.r)

\* the forward projection of sample k of the line of longitude lon
LonSample(lon, k) ==
    heliographic_to_image(lat_samples[k], lon, orient.B0, orient.P0,
                          orient.L0, DiskGeometry.cx, DiskGeometry.cy,
                          DiskGeometry.r)

\* (px - cx)^2 + (py - cy)^2
DistSqToCenter(pt) ==
    FracAdd(FracMul(FracAdd(pt.px, FracInt(0 - DiskGeometry.cx)),
                    FracAdd(pt.px, FracInt(0 - DiskGeometry.cx))),
            FracMul(FracAdd(pt.py, FracInt(0 - DiskGeometry.cy)),
                    FracAdd(pt.py, FracInt(0 - DiskGeometry.cy))))

\* (px - cx)^2 + (py - cy)^2 <= r^2
OnDisk(pt) ==
    /\ DistSqToCenter(pt).d > 0
    /\ DistSqToCenter(pt).n <= DiskGeometry.r * DiskGeometry.r * DistSqToCenter(pt).d

\* C11: every point of every emitted global line is the projection of a
\* valid sample and lies on the disk, a line holds one point per valid
\* sample (the invalid ones are omitted), and the generation returns the
\* lines of exactly the grid values that have a valid sample.
C11_InvalidSamplesDropped ==
    /\ \A i \in DOMAIN lat_lines :
          /\ \A m \in DOMAIN lat_lines[i].points :
                /\ OnDisk(lat_lines[i].points[m])
                /\ \E k \in DOMAIN lon_samples :
                      /\ LatSample(lat_lines[i].lat, k).valid
                      /\ LatSample(lat_lines[i].lat, k).px = lat_lines[i].points[m].px
                      /\ LatSample(lat_lines[i].lat, k).py = lat_lines[i].points[m].py
          /\ Len(lat_lines[i].points) =
                Cardinality({k \in DOMAIN lon_samples :
                                LatSample(lat_lines[i].lat, k).valid})
    /\ \A i \in DOMAIN lon_lines :
          /\ \A m \in DOMAIN lon_lines[i].points :
                /\ OnDisk(lon_lines[i].points[m])
                /\ \E k \in DOMAIN lat_samples :
                      /\ LonSample(lon_lines[i].lon, k).valid
                      /\ LonSample(lon_lines[i].lon, k).px = lon_lines[i].points[m].px
                      /\ LonSample(lon_lines[i].lon, k).py = lon_lines[i].points[m].py
          /\ Len(lon_lines[i].points) =
                Cardinality({k \in DOMAIN lat_samples :
                                LonSample(lon_lines[i].lon, k).valid})
    /\ gridpc = "done" =>
          /\ Len(lat_lines) =
                Cardinality({i \in DOMAIN lat_values :
                    \E k \in DOMAIN lon_samples : LatSample(lat_values[i], k).valid})
          /\ Len(lon_lines) =
                Cardinality({i \in DOMAIN lon_values :
                    \E k \in DOMAIN lat_samples : LonSample(lon_values[i], k).valid})

\* the generation returned; a latitude line and a longitude line each lost
\* some of their samples
C11_Witness ==
    /\ gridpc = "done"
    /\ \E i \in DOMAIN lat_lines :
          /\ Len(lat_lines[i].points) > 0
          /\ Len(lat_lines[i].points) < Len(lon_samples)
    /\ \E i \in DOMAIN lon_lines :
          /\ Len(lon_lines[i].points) > 0
          /\ Len(lon_lines[i].points) < Len(lat_samples)

----------------------------------------------------------------------------
(* The sampling of cv2.remap in rectify_patch_from_solar_orientation       *)

\* the shape of the image handed to cv2.remap: the 2048 x 2048 of
\* resize_to_2k, in the proportion of DiskGeometry
ImageShape == [w |-> 80, h |-> 80]

\* lines 190-196: what cv2.remap writes to an output pixel whose source
\* coordinate is c.  BORDER_CONSTANT gives borderValue 0.0 where no image
\* pixel takes part in the bilinear interpolation; anywhere else the value
\* is interpolated from the image.
RemapPixel(c, shape) ==
    IF c.x.d = 0 \/ c.y.d = 0 THEN "border"
    ELSE IF \/ c.x.n <= (0 - 1) * c.x.d \/ c.x.n >= shape.w * c.x.d
            \/ c.y.n <= (0 - 1) * c.y.d \/ c.y.n >= shape.h * c.y.d
         THEN "border"
    ELSE "image"

\* (x - cx)^2 + (y - cy)^2 > r^2
OffDisk(c) ==
    /\ c.x.d # 0 /\ c.y.d # 0
    /\ ~OnDisk([px |-> c.x, py |-> c.y])

\* C12: an output pixel of the rectified patch whose sampling coordinate is
\* off the disk carries the no-data value, never an image intensity.
C12_OffDiskMasked ==
    gpc \in {"rectified", "done"} =>
        \A ij \in DOMAIN remap :
            OffDisk(remap[ij]) => RemapPixel(remap[ij], ImageShape) = "border"

----------------------------------------------------------------------------
(* Frame of merge_nearby_candidates                                        *)

\* C13: merge_nearby_candidates leaves its argument as it found it: the
\* list regions and each of its dicts are the same after the call as
\* before, in the merge branch and in the reject branch.
C13_InputsNotMutated == [][regions' = regions]_vars

\* the call returned after one group of two was rejected and another seed's
\* group was merged into a new dict
C13_Witness ==
    /\ mpc = "done"
    /\ \E gi \in DOMAIN groups :
          groups[gi].rejected /\ Len(groups[gi].members) >= 2
    /\ \E gi \in DOMAIN groups : ~groups[gi].rejected


----------------------------------------------------------------------------
(* The grouping rule of the merge pass                                     *)

MemberSet(g) == {g.members[k] : k \in DOMAIN g.members}

\* the candidates assigned to a group before group gi was formed
AssignedBefore(gi) == UNION {MemberSet(groups[h]) : h \in 1 .. (gi - 1)}

NearCentroids(a, b) == DistLess(regions[a], regions[b], max_dist)

\* C20: the groups are formed in input order: the seed of each group is
\* the first candidate no earlier group holds, and the group is the seed
\* plus every other candidate no earlier group holds whose centroid is
\* within max_dist of the seed's centroid; nearness to another member
\* does not count.
C20_GroupedAroundSeed ==
    mpc = "done" =>
        /\ \A k \in DOMAIN regions : \E gi \in DOMAIN groups :
                k \in MemberSet(groups[gi])
        /\ \A gi \in DOMAIN groups :
            LET g    == groups[gi]
                free == DOMAIN regions \ AssignedBefore(gi)
            IN  /\ g.seed \in free
                /\ \A k \in free : g.seed <= k
                /\ g.members[1] = g.seed
                /\ MemberSet(g) =
                      {g.seed} \cup {j \in free : NearCentroids(g.seed, j)}

\* a chain: the seed's group holds a member m, and a candidate c near m
\* but not near the seed went to a later group
C20_Witness ==
    /\ mpc = "done"
    /\ \E gi, gj \in DOMAIN groups :
          /\ gi < gj
          /\ \E m \in MemberSet(groups[gi]), c \in MemberSet(groups[gj]) :
                /\ m # groups[gi].seed
                /\ NearCentroids(m, c)
                /\ ~NearCentroids(groups[gi].seed, c)
----------------------------------------------------------------------------
(* LoopSpec: the loop over merged_candidates of process_single_image       *)
(* (lines 174-209), its iterations taken in any order by workers that each *)
(* run the loop body in a frame of their own.                              *)

MaxWorkers == 2

MaxLoopCands == 2

Workers == 1..MaxWorkers

\* the candidate centers: the disk center moved by half a pixel, and a
\* point 7 px below it
LoopCenters ==
    {[cx |-> FracAdd(FracInt(DiskGeometry.cx), Rat(1, 2)),
      cy |-> FracAdd(FracInt(DiskGeometry.cy), Rat(1, 2))],
     [cx |-> FracInt(DiskGeometry.cx), cy |-> FracInt(DiskGeometry.cy + 7)]}

NoFrame == [k |-> 0, pc |-> "next", px |-> 0, py |-> 0,
            rectified_patch |-> NoBasis,
            patch_grid |-> [patch_lat_lines |-> <<>>, patch_lon_lines |-> <<>>]]

\* lines 175-178 with px, py kept from the frame's previous iteration
FrameAfterRectifyStale(f, k, c, cx, cy, r, p0) ==
    IF f.k = 0
    THEN [f EXCEPT !.k = k, !.pc = "rectified",
                   !.px = IntTrunc(c.cx), !.py = IntTrunc(c.cy),
                   !.rectified_patch =
                       RectifyBasis(IntTrunc(c.cx), IntTrunc(c.cy), cx, cy, r, p0)]
    ELSE [f EXCEPT !.k = k, !.pc = "rectified",
                   !.rectified_patch = RectifyBasis(f.px, f.py, cx, cy, r, p0)]

\* lines 175-178: px, py = int(cand["cx"]), int(cand["cy"]) and the
\* rectified patch
FrameAfterRectify(f, k, c, cx, cy, r, p0) ==
    [f EXCEPT !.k = k, !.pc = "rectified",
              !.px = IntTrunc(c.cx), !.py = IntTrunc(c.cy),
              !.rectified_patch =
                  RectifyBasis(IntTrunc(c.cx), IntTrunc(c.cy), cx, cy, r, p0)]

\* lines 180-192: patch_x, patch_y and the patch grid
FrameAfterGrid(f, psize, cx, cy, r, p0, grid) ==
    [f EXCEPT !.pc = "gridded",
              !.patch_grid =
                  generate_patch_grid(f.px - psize \div 2, f.py - psize \div 2,
                                      psize, cx, cy, r, p0, grid)]

\* lines 199-209: the dict appended to patch_results
PatchResult(f) ==
    [px |-> f.px, py |-> f.py, grid |-> f.patch_grid,
     image_base64 |-> f.rectified_patch]

LoopInit ==
    /\ loop_P0 = [s |-> 0, c |-> 1, d |-> 1]
    /\ loop_size \in PatchSizes
    /\ loop_grid = GridOf({o \in ExactOffsets : o[1] = 0 \/ o[2] = 0})
    /\ loop_cands \in UNION {[1..n -> LoopCenters] : n \in 0..MaxLoopCands}
    /\ encodes \in [DOMAIN loop_cands -> BOOLEAN]
    /\ todo = DOMAIN loop_cands
    /\ frames = [w \in Workers |-> NoFrame]
    /\ results = <<>>
    /\ looppc = "loop"
    /\ LoopOthersIdle

\* a worker takes a candidate and rectifies its patch (lines 174-178)
LoopRectify(w) ==
    /\ looppc = "loop"
    /\ frames[w].pc = "next"
    /\ \E k \in todo :
          /\ todo' = todo \ {k}
          /\ frames' = [frames EXCEPT ![w] =
                 FrameAfterRectify(frames[w], k, loop_cands[k], DiskGeometry.cx,
                                   DiskGeometry.cy, DiskGeometry.r, loop_P0)]
    /\ UNCHANGED <<loop_cands, loop_P0, loop_size, loop_grid, encodes, results,
                   looppc>>
    /\ UNCHANGED loopOthers

\* the patch grid of the worker's candidate (lines 180-192)
LoopGrid(w) ==
    /\ looppc = "loop"
    /\ frames[w].pc = "rectified"
    /\ frames' = [frames EXCEPT ![w] =
           FrameAfterGrid(frames[w], loop_size, DiskGeometry.cx, DiskGeometry.cy,
                          DiskGeometry.r, loop_P0, loop_grid)]
    /\ UNCHANGED <<loop_cands, loop_P0, loop_size, loop_grid, encodes, todo,
                   results, looppc>>
    /\ UNCHANGED loopOthers

\* lines 194-209: a patch that does not encode is skipped, any other is
\* appended to patch_results
LoopEmit(w) ==
    /\ looppc = "loop"
    /\ frames[w].pc = "gridded"
    /\ results' = IF encodes[frames[w].k]
                  THEN Append(results, PatchResult(frames[w]))
                  ELSE results
    /\ frames' = [frames EXCEPT ![w].pc = "next"]
    /\ UNCHANGED <<loop_cands, loop_P0, loop_size, loop_grid, encodes, todo,
                   looppc>>
    /\ UNCHANGED loopOthers

\* line 211: return {"patches": patch_results}
LoopReturn ==
    /\ looppc = "loop"
    /\ todo = {}
    /\ \A w \in Workers : frames[w].pc = "next"
    /\ looppc' = "returned"
    /\ UNCHANGED <<loop_cands, loop_P0, loop_size, loop_grid, encodes, todo,
                   frames, results>>
    /\ UNCHANGED loopOthers

LoopNext ==
    \/ \E w \in Workers : LoopRectify(w)
    \/ \E w \in Workers : LoopGrid(w)
    \/ \E w \in Workers : LoopEmit(w)
    \/ LoopReturn

LoopSpec == LoopInit /\ [][LoopNext]_vars

\* what the loop body yields for candidate c, from c, the disk geometry,
\* the timestamp's P0 and the global grid alone
ResultOf(c) ==
    [px |-> IntTrunc(c.cx), py |-> IntTrunc(c.cy),
     grid |-> generate_patch_grid(IntTrunc(c.cx) - loop_size \div 2,
                                  IntTrunc(c.cy) - loop_size \div 2, loop_size,
                                  DiskGeometry.cx, DiskGeometry.cy,
                                  DiskGeometry.r, loop_P0, loop_grid),
     image_base64 |-> RectifyBasis(IntTrunc(c.cx), IntTrunc(c.cy),
                                   DiskGeometry.cx, DiskGeometry.cy,
                                   DiskGeometry.r, loop_P0)]

\* C14: whatever the order in which the candidates are taken and however
\* the workers' steps interleave, the returned patch results are, as a set,
\* the results of the candidates that encode, one entry per such candidate,
\* each a function of its own candidate only; and no step changes what
\* another candidate's step reads (candidates, grid, timestamp).
C14_CandidatesIndependent ==
    /\ looppc = "returned" =>
          /\ {results[m] : m \in DOMAIN results} =
                {ResultOf(loop_cands[k]) :
                    k \in {j \in DOMAIN loop_cands : encodes[j]}}
          /\ Len(results) = Cardinality({j \in DOMAIN loop_cands : encodes[j]})
    /\ \A w \in DOMAIN frames :
          frames[w].pc = "gridded" =>
              PatchResult(frames[w]) = ResultOf(loop_cands[frames[w].k])

\* two different candidates were processed and the second-listed one was
\* emitted first
C14_Witness ==
    /\ looppc = "returned"
    /\ Len(loop_cands) = 2
    /\ loop_cands[1] # loop_cands[2]
    /\ Len(results) = 2
    /\ results[1] = ResultOf(loop_cands[2])
    /\ results[1] # results[2]

----------------------------------------------------------------------------
(* SphereSpec: cartesian_to_spherical applied to one pixel                 *)

\* the pixels handed in: the on-disk pixels with a rational nz, and the
\* off-disk pixels of two image rows
SpherePixels ==
    {[x |-> DiskGeometry.cx + o[1], y |-> DiskGeometry.cy + o[2]] :
        o \in ExactOffsets}
    \cup {[x |-> x, y |-> y] : x \in {0, 14, 66, ImageShape.w - 1}, y \in {0, 40}}

SphereInit ==
    /\ sph_in \in SpherePixels
    /\ sph_out = Vec(0, 0, 0, 0)
    /\ sphpc = "call"
    /\ SphereOthersIdle

CallSphere ==
    /\ sphpc = "call"
    /\ sph_out' = cartesian_to_spherical(sph_in.x, sph_in.y, DiskGeometry.cx,
                                         DiskGeometry.cy, DiskGeometry.r)
    /\ sphpc' = "done"
    /\ UNCHANGED sph_in
    /\ UNCHANGED sphereOthers

SphereNext == CallSphere

SphereSpec == SphereInit /\ [][SphereNext]_vars

\* ((x - cx) / r)^2 + ((y - cy) / r)^2 <= 1
PixelOnDisk(p) ==
    (p.x - DiskGeometry.cx) * (p.x - DiskGeometry.cx)
        + (p.y - DiskGeometry.cy) * (p.y - DiskGeometry.cy)
    <= DiskGeometry.r * DiskGeometry.r

\* C15: for an on-disk pixel cartesian_to_spherical returns (nx, ny, nz)
\* with nx^2 + ny^2 + nz^2 = 1 and nz >= 0.
C15_UnitVectorOnDisk ==
    (sphpc = "done" /\ PixelOnDisk(sph_in)) =>
        /\ sph_out.d > 0
        /\ sph_out.x * sph_out.x + sph_out.y * sph_out.y + sph_out.z * sph_out.z
              = sph_out.d * sph_out.d
        /\ sph_out.z >= 0

\* the function returned for an on-disk pixel off both axes and inside the
\* limb
C15_Witness ==
    /\ sphpc = "done"
    /\ PixelOnDisk(sph_in)
    /\ sph_in.x # DiskGeometry.cx /\ sph_in.y # DiskGeometry.cy
    /\ sph_out.z > 0

----------------------------------------------------------------------------
(* Fixed-point arithmetic for SolarOrientation.  A dimensionless float or  *)
(* an angle in radians is an integer count of 1e-5; an angle in degrees is *)
(* a count of 1e-5 degree where it is accumulated and of 1e-3 degree       *)
(* (millidegree) where it is handed to a trigonometric function or         *)
(* returned.  Every product is split so that it stays below 2^31.          *)

Unit == 100000

Sgn(a) == IF a < 0 THEN 0 - 1 ELSE 1

\* a * b / Unit for a, b >= 0
MulPos(a, b) ==
    (a * (b \div 1000)) \div 100 + (a * (b % 1000)) \div 100000

\* the float product a * b
MulFix(a, b) == Sgn(a) * Sgn(b) * MulPos(Abs(a), Abs(b))

\* a * Unit / b for a >= 0, b > 0, by long division
DivPos(a, b) ==
    (a \div b) * Unit + (((a % b) * 1000) \div b) * 100
        + ((((a % b) * 1000) % b) * 100) \div b

\* the float quotient a / b
DivFix(a, b) == Sgn(a) * Sgn(b) * DivPos(Abs(a), Abs(b))

\* np.deg2rad of an angle in millidegrees: m * 1.7453293
Deg2Rad(m) ==
    Sgn(m) * (Abs(m) + (Abs(m) * 7453) \div 10000 + (Abs(m) * 293) \div 10000000)

\* np.rad2deg, in millidegrees: x * 0.5729578
Rad2Deg(x) ==
    Sgn(x) * ((Abs(x) * 5729) \div 10000 + (Abs(x) * 578) \div 10000000)

\* the sine series to x^11 for x in [-pi/2, pi/2], x2 = x * x
SinPoly(x, x2) ==
    MulFix(x,
      Unit - MulFix(x2,
        Unit - MulFix(x2,
          Unit - MulFix(x2,
            Unit - MulFix(x2, Unit - x2 \div 110) \div 72) \div 42) \div 20) \div 6)

\* an angle in millidegrees brought into (-180000, 180000]
Wrap180(m) ==
    IF (m % 360000) > 180000 THEN (m % 360000) - 360000 ELSE (m % 360000)

\* an angle of (-180000, 180000] folded into [-90000, 90000], same sine
FoldSine(w) ==
    IF w > 90000 THEN 180000 - w
    ELSE IF w < 0 - 90000 THEN 0 - 180000 - w
    ELSE w

SinRad(x) == SinPoly(x, MulFix(x, x))

\* np.sin of an angle in millidegrees
SinDeg(m) == SinRad(Deg2Rad(FoldSine(Wrap180(m))))

\* np.cos of an angle in millidegrees
CosDeg(m) == SinDeg(m + 90000)

\* the arctangent series to v^13 for |v| <= tan(22.5 deg), v2 = v * v
AtanPoly(v, v2) ==
    MulFix(v,
      Unit - MulFix(v2,
        Unit \div 3 - MulFix(v2,
          Unit \div 5 - MulFix(v2,
            Unit \div 7 - MulFix(v2,
              Unit \div 9 - MulFix(v2,
                Unit \div 11 - MulFix(v2, Unit \div 13)))))))

AtanSmall(v) == AtanPoly(v, MulFix(v, v))

\* np.arctan of u >= 0: atan(u) = pi/4 + atan((u - 1) / (u + 1)) above
\* tan(22.5 deg) and pi/2 - atan(1 / u) above tan(67.5 deg)
AtanPos(u) ==
    IF u <= 41421 THEN AtanSmall(u)
    ELSE IF u <= 241421 THEN 78540 + AtanSmall(DivFix(u - Unit, u + Unit))
    ELSE 157080 - AtanSmall(DivFix(Unit, u))

\* np.arctan, in radians
Arctan(u) == Sgn(u) * AtanPos(Abs(u))

\* the arcsine series to u^5, u2 = u * u (|u| <= sin 7.25 deg here)
AsinPoly(u, u2) ==
    u + MulFix(u, u2) \div 6 + (3 * MulFix(MulFix(u, u2), u2)) \div 40

\* np.arcsin, in radians
Arcsin(u) == AsinPoly(u, MulFix(u, u))

\* 360 degrees in 1e-5 degree
FullTurn == 36000000

\* (a * b) mod M for a >= 0, by doubling
RECURSIVE MulMod(_, _, _)
MulMod(a, b, M) ==
    IF a = 0 THEN 0
    ELSE (2 * MulMod(a \div 2, b, M) + (a % 2) * b) % M

\* (rate * days) mod 360 in 1e-5 degree, for days = q + r * 1e-5 (q an
\* integer of either sign, 0 <= r < 1e5) and rate = hi * 1e-5 + lo * 1e-8
\* degrees a day
RateWhole(q, hi, lo) ==
    MulMod(Abs(q), hi % FullTurn, FullTurn) + (Abs(q) * lo) \div 1000

RateTimes(q, r, hi, lo) ==
    (Sgn(q) * RateWhole(q, hi, lo) + ((r \div 100) * (hi \div 10)) \div 100)
        % FullTurn

\* np.sin and np.cos of an angle in 1e-5 degree
Sin5(a) == SinDeg((a % FullTurn) \div 100)

Cos5(a) == CosDeg((a % FullTurn) \div 100)

----------------------------------------------------------------------------
(* SolarOrientation.  JDE is held as jde - 2451545.0 = q + r * 1e-5 days,  *)
(* q an integer, 0 <= r < 1e5.                                             *)

\* lines 23-46 with delta_t = 66.0: the days are the integer terms of line
\* 41-43, f the fraction d - 0.5 + delta_t / 86400 in 1e-5 day
JdeOf(days, f) == [q |-> days + f \div 100000, r |-> f % 100000]

JdeFrom(Y, M, D, secs) ==
    JdeOf((1461 * (Y + 4716)) \div 4 + (306001 * (M + 1)) \div 10000 + D
              + (2 - Y \div 100 + (Y \div 100) \div 4) - 1524 - 2451545,
          (secs * 125) \div 108 - 50000 + 76)

datetime_to_jde(dt) ==
    IF dt.M <= 2
    THEN JdeFrom(dt.Y - 1, dt.M + 12, dt.D, dt.H * 3600 + dt.h * 60 + dt.s)
    ELSE JdeFrom(dt.Y, dt.M, dt.D, dt.H * 3600 + dt.h * 60 + dt.s)

\* lines 56, 118: T = (jde - 2451545.0) / 36525.0, in 1e-5 century
CenturiesOf(jde) == (jde.q * 100000 + jde.r) \div 36525

\* line 59: L, in 1e-5 degree
MeanLongitude(jde, T2) ==
    (28046645 + RateTimes(jde.q, jde.r, 98564, 736) + (30 * T2) \div 100000)
        % FullTurn

\* lines 62-63: MA, in 1e-5 degree
MeanAnomaly(jde, T2) ==
    (35752910 + RateTimes(jde.q, jde.r, 98560, 28) - (16 * T2) \div 100000)
        % FullTurn

\* line 66: e
Eccentricity(T, T2) == 1671 - (4 * T) \div 100000

\* lines 69-71: C, in 1e-5 degree
EquationOfCenter(T, T2, MA) ==
    MulFix(191460 - (482 * T) \div 100000 - T2 \div 100000, Sin5(MA))
        + MulFix(1999 - (10 * T) \div 100000, Sin5(2 * MA))
        + MulFix(29, Sin5(3 * MA))

\* line 78: R, with v = MA + C
SunDistance(e, v) ==
    DivFix(MulFix(Unit, Unit - MulFix(e, e)), Unit + MulFix(e, Cos5(v)))

\* lines 81-83: Omega, LS, LM, in 1e-5 degree
NodeLongitude(jde) ==
    (12504452 - RateTimes(jde.q, jde.r, 5295, 376)) % FullTurn

SunMeanLongitude(jde) ==
    (28046650 + RateTimes(jde.q, jde.r, 98564, 733)) % FullTurn

MoonMeanLongitude(jde) ==
    (21831650 + RateTimes(jde.q, jde.r, 1317639, 650)) % FullTurn

\* lines 85-88: Delta_psi, in 1e-5 degree
NutationLongitude(Omega, LS, LM) ==
    (0 - 1720 * Sin5(Omega) - 132 * Sin5(2 * LS) - 23 * Sin5(2 * LM)
       + 21 * Sin5(2 * Omega)) \div 360000

\* lines 90-93: Delta_epsilon, in 1e-5 degree
NutationObliquity(Omega, LS, LM) ==
    (920 * Cos5(Omega) + 57 * Cos5(2 * LS) + 10 * Cos5(2 * LM)
       - 9 * Cos5(2 * Omega)) \div 360000

\* lines 96-97: Epsilon, in 1e-5 degree
Obliquity(T, deps) == 2343929 - (1300 * T) \div 100000 + deps

\* lines 74-102 from L, MA and C
SunFromAnomaly(jde, T, T2, L, MA, C) ==
    [SL |-> (L + C + NutationLongitude(NodeLongitude(jde),
                                       SunMeanLongitude(jde),
                                       MoonMeanLongitude(jde))) % FullTurn,
     R |-> SunDistance(Eccentricity(T, T2), MA + C),
     Epsilon |-> Obliquity(T, NutationObliquity(NodeLongitude(jde),
                                                SunMeanLongitude(jde),
                                                MoonMeanLongitude(jde)))]

SunFromMeans(jde, T, T2, L, MA) ==
    SunFromAnomaly(jde, T, T2, L, MA, EquationOfCenter(T, T2, MA))

SunFromCenturies(jde, T, T2) ==
    SunFromMeans(jde, T, T2, MeanLongitude(jde, T2), MeanAnomaly(jde, T2))

\* calculate_sun_position(jde): (SL, R, Epsilon), the angles in 1e-5 degree
calculate_sun_position(jde) ==
    SunFromCenturies(jde, CenturiesOf(jde),
                     MulFix(CenturiesOf(jde), CenturiesOf(jde)))

\* line 126: Theta = ((jde - 2398220.0) * 360.0 / 25.38) % 360.0, in
\* millidegrees; 2451545 - 2398220 = 2101 * 25.38 + 1.62 days
PhaseDays(jde) ==
    (162000 + Sgn(jde.q) * MulMod(Abs(jde.q), 100000, 2538000) + jde.r)
        % 2538000

RotationPhase(jde) == (PhaseDays(jde) * 360) \div 2538

\* line 128: I = 7.25, in 1e-5 degree
Inclination == 725000

\* line 131: K, in 1e-5 degree; 2451545 - 2396758 = 54787 days
NodeK(jde) == 7366670 + ((jde.q + 54787) * 3822) \div 1000

\* lines 135-138: P0, in millidegrees
PositionAngle(SL, d, Epsilon) ==
    Rad2Deg(Arctan(0 - MulFix(Cos5(SL), DivFix(Sin5(Epsilon), Cos5(Epsilon))))
            + Arctan(0 - MulFix(Cos5(d), DivFix(Sin5(Inclination),
                                                 Cos5(Inclination)))))

\* lines 141-142: B0, in millidegrees
DiskLatitude(d) == Rad2Deg(Arcsin(MulFix(Sin5(d), Sin5(Inclination))))

\* lines 145-146, 153: np.rad2deg(Eta), in millidegrees
EtaRaw(d) ==
    Rad2Deg(Arctan(MulFix(DivFix(Sin5(d), Cos5(d)), Cos5(Inclination))))

\* lines 150-151
WrapDiff(diff) == IF diff > 180000 THEN diff - 360000 ELSE diff

\* lines 156-160
QuadrantCorrect(diff, Eta_deg) ==
    IF 90000 < diff /\ diff <= 270000
    THEN IF Eta_deg > 0 THEN Eta_deg - 180000 ELSE Eta_deg + 180000
    ELSE Eta_deg

\* lines 149-164 from the values computed before
OrientFromEta(B0, p0, Theta, SL_K, Eta) ==
    [B0 |-> B0, P0 |-> p0,
     L0 |-> (QuadrantCorrect(WrapDiff(SL_K), Eta) - Theta) % 360000,
     Theta |-> Theta,
     SL_K |-> SL_K,
     SL_K_diff |-> WrapDiff(SL_K),
     Eta |-> Eta,
     Eta_deg |-> QuadrantCorrect(WrapDiff(SL_K), Eta)]

\* lines 134-164 from SL - K
OrientFromDiff(SL, Epsilon, Theta, d) ==
    OrientFromEta(DiskLatitude(d), PositionAngle(SL, d, Epsilon), Theta,
                  (d % FullTurn) \div 100, EtaRaw(d))

\* lines 122-164 from the sun's position
OrientFromSun(jde, sun) ==
    OrientFromDiff(sun.SL, sun.Epsilon, RotationPhase(jde), sun.SL - NodeK(jde))

calculate_B0_P0_L0(jde) == OrientFromSun(jde, calculate_sun_position(jde))

from_datetime(dt) == calculate_B0_P0_L0(datetime_to_jde(dt))

----------------------------------------------------------------------------
(* OrientSpec: from_datetime on the first and the thirteenth of every      *)
(* month of two years, at 0 h                                              *)

ObservationTimes ==
    {[Y |-> y, M |-> m, D |-> d, H |-> 0, h |-> 0, s |-> 0] :
        y \in {1992, 2024}, m \in 1..12, d \in {1, 13}}

OrientInit ==
    /\ o_dt \in ObservationTimes
    /\ o_jde = [q |-> 0, r |-> 0]
    /\ o_sun = [SL |-> 0, R |-> 0, Epsilon |-> 0]
    /\ o_out = [B0 |-> 0, P0 |-> 0, L0 |-> 0]
    /\ opc = "jde"
    /\ OrientOthersIdle

\* line 177
ToJde ==
    /\ opc = "jde"
    /\ o_jde' = datetime_to_jde(o_dt)
    /\ opc' = "sun"
    /\ UNCHANGED <<o_dt, o_sun, o_out>>
    /\ UNCHANGED orientOthers

\* line 121
SunPosition ==
    /\ opc = "sun"
    /\ o_sun' = calculate_sun_position(o_jde)
    /\ opc' = "orient"
    /\ UNCHANGED <<o_dt, o_jde, o_out>>
    /\ UNCHANGED orientOthers

\* lines 122-164
Orientation ==
    /\ opc = "orient"
    /\ o_out' = OrientFromSun(o_jde, o_sun)
    /\ opc' = "done"
    /\ UNCHANGED <<o_dt, o_jde, o_sun>>
    /\ UNCHANGED orientOthers

OrientNext == ToJde \/ SunPosition \/ Orientation

OrientSpec == OrientInit /\ [][OrientNext]_vars

\* the reference orientation of 1992 October 13, 0 h (Meeus, Astronomical
\* Algorithms, example 29.a): P = +26.27, B0 = +5.99, L0 = 238.63 degrees
ReferenceOrientation ==
    [dt |-> [Y |-> 1992, M |-> 10, D |-> 13, H |-> 0, h |-> 0, s |-> 0],
     B0 |-> 5990, P0 |-> 26270, L0 |-> 238630]

\* the distance of two angles on the circle, in millidegrees
AngleGap(a, b) ==
    IF ((a - b) % 360000) > 180000 THEN 360000 - ((a - b) % 360000)
    ELSE ((a - b) % 360000)

\* C16: from_datetime on the reference date reproduces the reference B0,
\* P0 and L0 within 0.05 degree.
C16_ReferenceValues ==
    (opc = "done" /\ o_dt = ReferenceOrientation.dt) =>
        /\ Abs(o_out.B0 - ReferenceOrientation.B0) <= 50
        /\ Abs(o_out.P0 - ReferenceOrientation.P0) <= 50
        /\ AngleGap(o_out.L0, ReferenceOrientation.L0) <= 50

\* the quadrant 0..3 of an angle in millidegrees
Quadrant(a) == (a % 360000) \div 90000

\* C19: when (L_apparent - K) mod 360 lies in (90, 270] the raw arctangent
\* Eta is shifted by 180 degrees (minus 180 if Eta > 0, plus 180 otherwise)
\* and then lies in the quadrant of (L_apparent - K); for every other value
\* Eta is left as it is.
C19_QuadrantCorrection ==
    opc = "done" =>
        /\ (90000 < o_out.SL_K /\ o_out.SL_K <= 270000) =>
              /\ o_out.Eta_deg = IF o_out.Eta > 0 THEN o_out.Eta - 180000
                                 ELSE o_out.Eta + 180000
              /\ Quadrant(o_out.Eta_deg) = Quadrant(o_out.SL_K)
        /\ ~(90000 < o_out.SL_K /\ o_out.SL_K <= 270000) =>
              o_out.Eta_deg = o_out.Eta

-----------------------------------------------------------------------------
(* RateLimitMiddleware                                                     *)
(*                                                                         *)
(* dispatch runs on one event loop and holds no await between its first    *)
(* line and call_next, so one request is one step.  The Redis server keeps *)
(* rate_limit:<ip> -> [count, expires]; a key whose time to live is over   *)
(* is read as absent.  Whether the server answers is the environment's     *)
(* choice; a call to a server that does not answer raises.                 *)

\* settings.RATE_LIMIT_PER_MINUTE
RATE_LIMIT_PER_MINUTE == 2

\* the 60 of pipe.expire(key, 60) and of current_time - ts < 60
Window == 60

\* the last second the clock reaches
MaxClock == 90

ClientIPs == {"10.0.0.1", "10.0.0.2"}

\* request.url.path, split at "/"
RequestPaths == {<<"static", "app.js">>, <<"health">>, <<"api", "observations">>}

\* request.url.path.startswith("/static") or request.url.path == "/health"
IsExempt(path) == path[1] = "static" \/ path = <<"health">>

\* count = self.redis.get(key); count = int(count) if count else 0
RedisCount(keys, ip, t) ==
    IF ip \in DOMAIN keys /\ t < keys[ip].expires THEN keys[ip].count ELSE 0

\* pipe.incr(key); if count == 0: pipe.expire(key, 60); pipe.execute()
RedisIncr(keys, ip, t, count) ==
    [k \in DOMAIN keys \cup {ip} |->
        IF k # ip THEN keys[k]
        ELSE [count |-> count + 1,
              expires |-> IF count = 0 THEN t + Window ELSE keys[ip].expires]]

\* [ts for ts in self.fallback_storage[client_ip] if current_time - ts < 60]
Pruned(storage, ip, t) ==
    IF ip \in DOMAIN storage
    THEN LET Recent(ts) == t - ts < Window IN SelectSeq(storage[ip], Recent)
    ELSE <<>>

\* self.fallback_storage[client_ip] = <list>
StorageWith(storage, ip, list) ==
    [k \in DOMAIN storage \cup {ip} |-> IF k = ip THEN list ELSE storage[k]]

\* call_next(request) of a limited request, seen from outside
Forward(fwd, ip, t) ==
    StorageWith(fwd, ip, Append(Pruned(fwd, ip, t), t))

Response(ip, path, status, passed) ==
    [ip |-> ip, path |-> path, status |-> status, passed |-> passed]

RateInit ==
    /\ clock = 0
    /\ redis_up \in BOOLEAN
    /\ redis_available = redis_up
    /\ redis_keys = <<>>
    /\ fallback_storage = <<>>
    /\ forwarded = <<>>
    /\ last_response = Response("none", <<>>, 0, FALSE)
    /\ RateOthersIdle

\* an exempt path goes straight to call_next
DispatchExempt(ip, path) ==
    /\ IsExempt(path)
    /\ last_response' = Response(ip, path, 200, TRUE)
    /\ UNCHANGED <<clock, redis_up, redis_available, redis_keys,
                   fallback_storage, forwarded>>
    /\ UNCHANGED rateOthers

\* the Redis branch when every call to the server returns
DispatchRedis(ip, path) ==
    /\ ~IsExempt(path)
    /\ redis_available /\ redis_up
    /\ LET count == RedisCount(redis_keys, ip, clock) IN
        IF count >= RATE_LIMIT_PER_MINUTE
        THEN /\ last_response' = Response(ip, path, 429, FALSE)
             /\ UNCHANGED <<redis_keys, forwarded>>
        ELSE /\ redis_keys' = RedisIncr(redis_keys, ip, clock, count)
             /\ forwarded' = Forward(forwarded, ip, clock)
             /\ last_response' = Response(ip, path, 200, TRUE)
    /\ UNCHANGED <<clock, redis_up, redis_available, fallback_storage>>
    /\ UNCHANGED rateOthers

\* the in-memory branch, entered directly or from the except clause after a
\* call to the server raised
DispatchFallback(ip, path) ==
    /\ ~IsExempt(path)
    /\ ~(redis_available /\ redis_up)
    /\ redis_available' = FALSE
    /\ LET list == Pruned(fallback_storage, ip, clock) IN
        IF Len(list) >= RATE_LIMIT_PER_MINUTE
        THEN /\ fallback_storage' = StorageWith(fallback_storage, ip, list)
             /\ last_response' = Response(ip, path, 429, FALSE)
             /\ UNCHANGED forwarded
        ELSE /\ fallback_storage' =
                    StorageWith(fallback_storage, ip, Append(list, clock))
             /\ forwarded' = Forward(forwarded, ip, clock)
             /\ last_response' = Response(ip, path, 200, TRUE)
    /\ UNCHANGED <<clock, redis_up, redis_keys>>
    /\ UNCHANGED rateOthers

\* time passes
Tick ==
    /\ clock + 30 <= MaxClock
    /\ clock' = clock + 30
    /\ UNCHANGED <<redis_up, redis_available, redis_keys, fallback_storage,
                   forwarded, last_response>>
    /\ UNCHANGED rateOthers

\* the Redis server stops answering
RedisDown ==
    /\ redis_up
    /\ redis_up' = FALSE
    /\ UNCHANGED <<clock, redis_available, redis_keys, fallback_storage,
                   forwarded, last_response>>
    /\ UNCHANGED rateOthers

RateNext ==
    \/ \E ip \in ClientIPs, path \in RequestPaths : DispatchExempt(ip, path)
    \/ \E ip \in ClientIPs, path \in RequestPaths : DispatchRedis(ip, path)
    \/ \E ip \in ClientIPs, path \in RequestPaths : DispatchFallback(ip, path)
    \/ Tick
    \/ RedisDown

RateSpec == RateInit /\ [][RateNext]_vars

\* the limited requests of a client that call_next received during the
\* minute that ends now
ForwardedInMinute(ip) == Len(Pruned(forwarded, ip, clock))

\* C17: for every client at most RATE_LIMIT_PER_MINUTE requests were handed
\* to the application during any minute, and a request answered with 429
\* was not handed on; with Redis, with the in-memory lists, and after a
\* switch from the one to the other.
C17_AtMostLimitPerMinute ==
    /\ \A ip \in ClientIPs : ForwardedInMinute(ip) <= RATE_LIMIT_PER_MINUTE
    /\ last_response.status = 429 => ~last_response.passed

-----------------------------------------------------------------------------
(* start_training and _run_training                                        *)
(*                                                                         *)
(* start_training is a coroutine of the one event loop uvicorn.run starts  *)
(* and its body holds no await: once the loop runs a call it runs it to    *)
(* its return or raise.  The _run_training threads run beside the loop.    *)
(* Every `with training_lock:` block is one step.  A job id stands for the *)
(* uuid of the request that made it.                                       *)

MaxRequests == 3
MaxEpochs == 2

TrainRequests == 1 .. MaxRequests

\* the initial value of training_status
IdleStatus ==
    [is_running |-> FALSE, job_id |-> 0, status |-> "idle",
     current_epoch |-> 0]

\* training_status after the `# Update status` block for job_id
RunningStatus(job_id) ==
    [is_running |-> TRUE, job_id |-> job_id, status |-> "running",
     current_epoch |-> 0]

ReqAt(r, pc) == r \in DOMAIN train_reqs /\ train_reqs[r].pc = pc

ReqTo(r, pc, response) ==
    [train_reqs EXCEPT ![r].pc = pc, ![r].response = response]

\* a coroutine without await: the loop takes up every call it is handed
LoopAlwaysFree == TRUE

\* a coroutine without await: the loop takes up a call only when it runs
\* no other one
LoopFree == loop_task = 0

TrainInit ==
    /\ training_status = IdleStatus
    /\ train_threads = {}
    /\ train_reqs = <<>>
    /\ loop_task = 0
    /\ dataset_ready \in BOOLEAN
    /\ TrainOthersIdle

\* a POST /labeling/train arrives and waits for the event loop
Arrive(r) ==
    /\ r \notin DOMAIN train_reqs
    /\ train_reqs' = [k \in DOMAIN train_reqs \cup {r} |->
                        IF k = r
                        THEN [pc |-> "pending", response |-> 0,
                              raced |-> ~training_status.is_running]
                        ELSE train_reqs[k]]
    /\ UNCHANGED <<training_status, train_threads, loop_task, dataset_ready>>
    /\ UNCHANGED trainOthers

\* with training_lock: if training_status["is_running"]: raise 409
CheckRunning(r) ==
    /\ ReqAt(r, "pending")
    /\ LoopFree
    /\ IF training_status.is_running
       THEN /\ train_reqs' = ReqTo(r, "done", 409)
            /\ loop_task' = 0
       ELSE /\ train_reqs' = ReqTo(r, "validate", 0)
            /\ loop_task' = r
    /\ UNCHANGED <<training_status, train_threads, dataset_ready>>
    /\ UNCHANGED trainOthers

\* the checks of dataset.yaml and of the train and val folders: raise 400
ValidateDataset(r) ==
    /\ ReqAt(r, "validate")
    /\ IF dataset_ready
       THEN /\ train_reqs' = ReqTo(r, "update", 0)
            /\ UNCHANGED loop_task
       ELSE /\ train_reqs' = ReqTo(r, "done", 400)
            /\ loop_task' = 0
    /\ UNCHANGED <<training_status, train_threads, dataset_ready>>
    /\ UNCHANGED trainOthers

\* with training_lock: training_status["is_running"] = True ...
UpdateStatus(r) ==
    /\ ReqAt(r, "update")
    /\ training_status' = RunningStatus(r)
    /\ train_reqs' = ReqTo(r, "start", 0)
    /\ UNCHANGED <<train_threads, loop_task, dataset_ready>>
    /\ UNCHANGED trainOthers

\* thread.start() and the 202 response
StartThread(r) ==
    /\ ReqAt(r, "start")
    /\ train_threads' = train_threads \cup {r}
    /\ train_reqs' = ReqTo(r, "done", 202)
    /\ loop_task' = 0
    /\ UNCHANGED <<training_status, dataset_ready>>
    /\ UNCHANGED trainOthers

\* _run_training, on_train_epoch_end
TrainEpoch(j) ==
    /\ j \in train_threads
    /\ training_status.current_epoch < MaxEpochs
    /\ training_status' =
          [training_status EXCEPT !.current_epoch = @ + 1]
    /\ UNCHANGED <<train_threads, train_reqs, loop_task, dataset_ready>>
    /\ UNCHANGED trainOthers

\* _run_training: the last block of the try or the except clause, and the
\* end of the thread
TrainFinish(j, outcome) ==
    /\ j \in train_threads
    /\ training_status' =
          [training_status EXCEPT !.is_running = FALSE, !.status = outcome]
    /\ train_threads' = train_threads \ {j}
    /\ UNCHANGED <<train_reqs, loop_task, dataset_ready>>
    /\ UNCHANGED trainOthers

TrainNext ==
    \/ \E r \in TrainRequests : Arrive(r)
    \/ \E r \in TrainRequests : CheckRunning(r)
    \/ \E r \in TrainRequests : ValidateDataset(r)
    \/ \E r \in TrainRequests : UpdateStatus(r)
    \/ \E r \in TrainRequests : StartThread(r)
    \/ \E j \in TrainRequests : TrainEpoch(j)
    \/ \E j \in TrainRequests, outcome \in {"completed", "failed"} :
            TrainFinish(j, outcome)

TrainSpec == TrainInit /\ [][TrainNext]_vars

\* request r is answered with 409 in this step
Rejected(r) ==
    /\ ReqAt(r, "pending")
    /\ r \in DOMAIN train_reqs' /\ train_reqs'[r].response = 409

\* C18: at most one training thread is alive and no start request is past
\* the check while one is; a start request that meets is_running = True is
\* answered with 409, starts no thread and leaves training_status as it
\* is; requests that are under way together never both start a thread.
C18_OneTrainingJob ==
    /\ [](Cardinality(train_threads) <= 1)
    /\ [](\A r \in DOMAIN train_reqs :
            train_reqs[r].pc \in {"validate", "update", "start"} =>
                train_threads = {})
    /\ [][\A r \in TrainRequests :
            /\ (ReqAt(r, "pending") /\ training_status.is_running
                    /\ train_reqs' # train_reqs /\ train_reqs'[r].pc # "pending")
                  => Rejected(r)
            /\ Rejected(r) =>
                  /\ training_status.is_running
                  /\ train_threads' = train_threads
                  /\ training_status' = training_status]_vars

\* two requests arrived while no training ran; one started the thread that
\* is alive, the other was answered with 409
C18_Witness ==
    \E r1, r2 \in DOMAIN train_reqs :
        /\ r1 # r2
        /\ train_reqs[r1].raced /\ train_reqs[r2].raced
        /\ train_reqs[r1].response = 202
        /\ train_reqs[r2].response = 409
        /\ train_threads = {r1}

----------------------------------------------------------------------------
(* The partition made by the merge pass                                    *)

\* the (group, position) pairs of all groups
GroupSlots ==
    {s \in (DOMAIN groups) \X (1 .. MaxRegions) :
        s[2] \in DOMAIN groups[s[1]].members}

\* C21: every input candidate is in exactly one group and at one position
\* of it, members of rejected groups included; the group sizes sum to the
\* input length and the output is no longer than the input.
C21_GroupsPartitionInput ==
    mpc = "done" =>
        /\ \A k \in DOMAIN regions :
              Cardinality({s \in GroupSlots :
                  groups[s[1]].members[s[2]] = k}) = 1
        /\ \A s \in GroupSlots :
              groups[s[1]].members[s[2]] \in DOMAIN regions
        /\ Cardinality(GroupSlots) = Len(regions)
        /\ Len(merged) <= Len(regions)

\* a group of two was rejected and a later seed, near one of its members,
\* formed a group without it
C21_Witness ==
    /\ mpc = "done"
    /\ Len(groups) = 2
    /\ groups[1].rejected
    /\ Len(groups[1].members) = 2
    /\ \E m \in MemberSet(groups[1]) :
          NearCentroids(groups[2].seed, m)

----------------------------------------------------------------------------
(* Segmentation: segment_multi_levels_otsu(bilateral_filtered, classes=3)  *)
(* and binarize_from_multiotsu_output, as                                  *)
(* process_image_through_segmentation_pipeline_v3 calls them, on one row   *)
(* of pixels that crosses the disk.  Gray values are 0 .. MaxGray; the     *)
(* pixels off the disk are black.                                          *)

SegWidth == 6
MaxGray == 4

SegPixels == 1 .. SegWidth

\* create_disk_mask on the row: the pixels between the two limb pixels
DiskPixels == 2 .. (SegWidth - 1)

\* the rows: black off the disk, any non-black value on it
SegImages ==
    {im \in [SegPixels -> 0 .. MaxGray] :
        \A p \in SegPixels : (im[p] = 0) <=> (p \notin DiskPixels)}

\* the argument `mask` of the call at line 132: none is passed
SegMaskArg == "None"

\* pixels = image[mask] if mask is not None else image
PixelsOf(image, mask) == IF mask = "None" THEN DOMAIN image ELSE mask

\* number and sum of the values of `pixels` that lie in lo .. hi
BinCount(image, pix, lo, hi) ==
    Cardinality({p \in pix : lo <= image[p] /\ image[p] <= hi})

RECURSIVE BinSum(_, _, _, _)
BinSum(image, pix, lo, hi) ==
    IF lo > hi THEN 0
    ELSE lo * BinCount(image, pix, lo, lo) + BinSum(image, pix, lo + 1, hi)

\* the share of one class in the between-class variance: P * mu^2
ClassTerm(image, pix, lo, hi) ==
    IF BinCount(image, pix, lo, hi) = 0 THEN FracInt(0)
    ELSE Frac(BinSum(image, pix, lo, hi) * BinSum(image, pix, lo, hi),
              BinCount(image, pix, lo, hi))

OtsuScore(image, pix, lo, hi, t) ==
    FracAdd(ClassTerm(image, pix, lo, t[1]),
            FracAdd(ClassTerm(image, pix, t[1] + 1, t[2]),
                    ClassTerm(image, pix, t[2] + 1, hi)))

FracLess(a, b) == a.n * b.d < b.n * a.d

\* skimage.filters.threshold_multiotsu(pixels, classes=3): <<>> stands for
\* the ValueError raised on fewer than three distinct values; with exactly
\* three the two lower values are returned; otherwise the first pair of
\* bins of greatest between-class variance
threshold_multiotsu(image, pix) ==
    LET vals  == {image[p] : p \in pix}
        lo    == CHOOSE v \in vals : \A u \in vals : v <= u
        hi    == CHOOSE v \in vals : \A u \in vals : v >= u
        pairs == {t \in (lo .. hi) \X (lo .. hi) : t[1] < t[2] /\ t[2] < hi}
        Before(s, t) == s[1] < t[1] \/ (s[1] = t[1] /\ s[2] < t[2])
    IN  IF Cardinality(vals) < 3 THEN <<>>
        ELSE IF Cardinality(vals) = 3
        THEN CHOOSE t \in vals \X vals : t[1] = lo /\ lo < t[2] /\ t[2] < hi
        ELSE CHOOSE t \in pairs :
                \A s \in pairs :
                    /\ ~FracLess(OtsuScore(image, pix, lo, hi, t),
                                 OtsuScore(image, pix, lo, hi, s))
                    /\ Before(s, t) =>
                          FracLess(OtsuScore(image, pix, lo, hi, s),
                                   OtsuScore(image, pix, lo, hi, t))

\* np.digitize(image, bins=thresholds): the number of thresholds <= value
Digitize(v, th) == Cardinality({k \in DOMAIN th : th[k] <= v})

\* np.linspace(0, 255, 3, dtype=np.uint8)
Palette == <<0, 127, 255>>

\* segment_multi_levels_otsu from the thresholds on: palette[regions], and
\* black outside the mask if one was passed
SegmentedFrom(image, mask, th) ==
    [p \in DOMAIN image |->
        IF mask # "None" /\ p \notin mask THEN 0
        ELSE Palette[Digitize(image[p], th) + 1]]

\* np.where(segmented < background_value, 1, 0), or (0, 1) if not inverted
binarize_from_multiotsu_output(seg, background_value, inverted) ==
    [p \in DOMAIN seg |->
        IF (seg[p] < background_value) = inverted THEN 1 ELSE 0]

SegInit ==
    /\ seg_image \in SegImages
    /\ seg_disk = DiskPixels
    /\ otsu_pixels = {}
    /\ thresholds = <<>>
    /\ segmented = <<>>
    /\ binarized = <<>>
    /\ segpc = "segment"
    /\ SegOthersIdle

\* line 132: segment_multi_levels_otsu(bilateral_filtered, classes=3)
SegmentOtsu ==
    /\ segpc = "segment"
    /\ otsu_pixels' = PixelsOf(seg_image, SegMaskArg)
    /\ thresholds' = threshold_multiotsu(seg_image, otsu_pixels')
    /\ IF thresholds' = <<>>
       THEN /\ segpc' = "raised"
            /\ UNCHANGED segmented
       ELSE /\ segmented' = SegmentedFrom(seg_image, SegMaskArg, thresholds')
            /\ segpc' = "binarize"
    /\ UNCHANGED <<seg_image, seg_disk, binarized>>
    /\ UNCHANGED segOthers

\* line 136: binarize_from_multiotsu_output(multi_otsu_segmented)
Binarize ==
    /\ segpc = "binarize"
    /\ binarized' = binarize_from_multiotsu_output(segmented, 255, TRUE)
    /\ segpc' = "done"
    /\ UNCHANGED <<seg_image, seg_disk, otsu_pixels, thresholds, segmented>>
    /\ UNCHANGED segOthers

SegNext == SegmentOtsu \/ Binarize

SegSpec == SegInit /\ [][SegNext]_vars

\* C22: the thresholds of the 3-class search are computed from pixels on
\* the disk only: no pixel outside the disk mask is in the pixel set handed
\* to the threshold search.
C22_OtsuOnDiskOnly ==
    segpc \in {"binarize", "done", "raised"} => otsu_pixels \subseteq seg_disk

\* the class 0, 1 or 2 of a pixel of the segmented image
ClassOf(p) == CHOOSE k \in 0 .. 2 : Palette[k + 1] = segmented[p]

\* C23: after binarization a pixel is 1 exactly if it is in the darkest of
\* the three classes; the middle and the brightest class are 0.
C23_DarkestClassOnly ==
    segpc = "done" =>
        \A p \in SegPixels : (binarized[p] = 1) <=> (ClassOf(p) = 0)

----------------------------------------------------------------------------
(* ImageProcessor.detect_candidates on a DetSize x DetSize image.  A       *)
(* pixel is <<x, y>> with x the column and y the row, both from 0.         *)

DetSize == 5
MaxMaskPixels == 3

DetGrid == (0 .. DetSize - 1) \X (0 .. DetSize - 1)

\* create_disk_mask for cx = cy = 2 and (0.975 r)^2 just above 5: the
\* image without its four corners
DetDisk == {p \in DetGrid : (p[1] - 2) * (p[1] - 2) + (p[2] - 2) * (p[2] - 2) <= 5}

RECURSIVE SubsetsUpTo(_, _)
SubsetsUpTo(S, n) ==
    IF n = 0 THEN {{}}
    ELSE LET smaller == SubsetsUpTo(S, n - 1)
         IN  smaller \cup {T \cup {p} : T \in smaller, p \in S}

\* the binary masks with at most MaxMaskPixels pixels set
DetMasks == SubsetsUpTo(DetGrid, MaxMaskPixels)

\* connectivity=8
Adjacent8(p, q) ==
    p # q /\ Abs(p[1] - q[1]) <= 1 /\ Abs(p[2] - q[2]) <= 1

RECURSIVE GrowComponent(_, _)
GrowComponent(S, comp) ==
    LET more == {q \in S \ comp : \E p \in comp : Adjacent8(p, q)}
    IN  IF more = {} THEN comp ELSE GrowComponent(S, comp \cup more)

\* the order in which the scan of connectedComponentsWithStats meets pixels
RasterBefore(p, q) == p[2] < q[2] \/ (p[2] = q[2] /\ p[1] < q[1])

\* labels 1 .. num_labels - 1: the components in the order of their first
\* pixel
RECURSIVE LabelComponents(_)
LabelComponents(S) ==
    IF S = {} THEN <<>>
    ELSE LET first == CHOOSE p \in S : \A q \in S \ {p} : RasterBefore(p, q)
             comp  == GrowComponent(S, {first})
         IN  <<comp>> \o LabelComponents(S \ comp)

RECURSIVE SumOver(_, _)
SumOver(S, k) ==
    IF S = {} THEN 0
    ELSE LET p == CHOOSE q \in S : TRUE IN p[k] + SumOver(S \ {p}, k)

\* centroids[i]
Centroid(comp) ==
    [cx |-> Frac(SumOver(comp, 1), Cardinality(comp)),
     cy |-> Frac(SumOver(comp, 2), Cardinality(comp))]

\* the dict of lines 591-598: x, y, w, h of stats[i] and the centroid
RegionDict(comp) ==
    LET xs == {p[1] : p \in comp}
        ys == {p[2] : p \in comp}
        x  == CHOOSE v \in xs : \A u \in xs : v <= u
        y  == CHOOSE v \in ys : \A u \in ys : v <= u
        w  == (CHOOSE v \in xs : \A u \in xs : v >= u) - x + 1
        h  == (CHOOSE v \in ys : \A u \in ys : v >= u) - y + 1
    IN  [cx |-> Centroid(comp).cx, cy |-> Centroid(comp).cy,
         min_x |-> x, min_y |-> y, max_x |-> x + w, max_y |-> y + h]

\* disk_mask[int(cy), int(cx)]
CentroidInDisk(comp, disk_mask) ==
    <<IntTrunc(Centroid(comp).cx), IntTrunc(Centroid(comp).cy)>> \in disk_mask

\* the loop of lines 585-598 over the labels
RECURSIVE RegionsOf(_, _)
RegionsOf(comps, disk_mask) ==
    IF comps = <<>> THEN <<>>
    ELSE (IF CentroidInDisk(Head(comps), disk_mask)
          THEN <<RegionDict(Head(comps))>> ELSE <<>>)
         \o RegionsOf(Tail(comps), disk_mask)

\* returns the regions and the images it handed to show_image
detect_candidates(mask, disk_mask) ==
    LET mask_in_disk == mask \cap disk_mask
    IN  [regions |-> RegionsOf(LabelComponents(mask_in_disk), disk_mask),
         shown   |-> <<mask_in_disk>>]

DetInit ==
    /\ det_mask \in DetMasks
    /\ det_disk = DetDisk
    /\ det_regions = <<>>
    /\ displayed = <<>>
    /\ detpc = "call"
    /\ DetOthersIdle

CallDetect ==
    /\ detpc = "call"
    /\ det_regions' = detect_candidates(det_mask, det_disk).regions
    /\ displayed' = displayed \o detect_candidates(det_mask, det_disk).shown
    /\ detpc' = "done"
    /\ UNCHANGED <<det_mask, det_disk>>
    /\ UNCHANGED detOthers

DetNext == CallDetect

DetSpec == DetInit /\ [][DetNext]_vars

\* the 8-connected components of mask AND disk_mask
OnDiskComponents ==
    {GrowComponent(det_mask \cap det_disk, {p}) : p \in det_mask \cap det_disk}

\* the pixels a coordinate rounds to: the nearest integers (both, at .5)
NearestInts(q) == {k \in -1 .. DetSize : 2 * Abs(q.n - k * q.d) <= q.d}

RoundedCentroids(comp) ==
    NearestInts(Centroid(comp).cx) \X NearestInts(Centroid(comp).cy)

\* the centroid and the bounding box of the pixels of comp
IsRegionOf(reg, comp) ==
    /\ reg.cx.n * Cardinality(comp) = SumOver(comp, 1) * reg.cx.d
    /\ reg.cy.n * Cardinality(comp) = SumOver(comp, 2) * reg.cy.d
    /\ \A p \in comp : /\ reg.min_x <= p[1] /\ p[1] < reg.max_x
                       /\ reg.min_y <= p[2] /\ p[2] < reg.max_y
    /\ \E p \in comp : p[1] = reg.min_x
    /\ \E p \in comp : p[1] = reg.max_x - 1
    /\ \E p \in comp : p[2] = reg.min_y
    /\ \E p \in comp : p[2] = reg.max_y - 1

Returned(comp) == \E k \in DOMAIN det_regions : IsRegionOf(det_regions[k], comp)

\* C24: the returned candidates are the 8-connected components of
\* mask AND disk_mask, each with its centroid and bounding box, without
\* exactly those whose rounded centroid is not inside the disk mask: a
\* component whose centroid rounds to a pixel of the disk is returned, one
\* whose centroid rounds to a pixel off the disk is not, and every returned
\* candidate is such a component.
C24_ComponentsOnDisk ==
    detpc = "done" =>
        /\ \A comp \in OnDiskComponents :
              /\ RoundedCentroids(comp) \subseteq det_disk => Returned(comp)
              /\ RoundedCentroids(comp) \cap det_disk = {} => ~Returned(comp)
        /\ \A k \in DOMAIN det_regions :
              \E comp \in OnDiskComponents : IsRegionOf(det_regions[k], comp)
        /\ Len(det_regions) <= Cardinality(OnDiskComponents)

\* C25: detect_candidates makes no display call: nothing is handed to
\* show_image, the call only returns its list.
C25_NoDisplayCall == displayed = <<>>

----------------------------------------------------------------------------
(* The pixel frames of process_single_image.  An image is known by its     *)
(* size; all images here show the same scene, so pixel (x, y) of an image  *)
(* of size n shows the scene point (x / n, y / n).  The working resolution *)
(* 2048 is scaled down to WorkingSize.                                     *)

WorkingSize == 8

\* the resolutions of the input image: half, equal to and twice the
\* working resolution
InputSizes == {WorkingSize \div 2, WorkingSize, 2 * WorkingSize}

\* cv2.resize(image, (2048, 2048))
resize_to_2k(image) == [size |-> WorkingSize]

\* detect_sun_disk on an image whose disk fills it
DiskOf(image) == <<image.size \div 2, image.size \div 2, image.size \div 2>>

CoordInit ==
    /\ co_gray \in {[size |-> n] : n \in InputSizes}
    /\ co_resized = [size |-> 0]
    /\ co_disk = <<0, 0, 0>>
    /\ co_cand = <<0, 0>>
    /\ co_call = <<>>
    /\ copc = "segment"
    /\ CoordOthersIdle

\* process_image_through_segmentation_pipeline_v3(gray, False): the disk
\* and the masks are those of `resized`
CoordSegment ==
    /\ copc = "segment"
    /\ co_resized' = resize_to_2k(co_gray)
    /\ co_disk' = DiskOf(co_resized')
    /\ copc' = "detect"
    /\ UNCHANGED <<co_gray, co_cand, co_call>>
    /\ UNCHANGED coordOthers

\* detect_candidates and merge_nearby_candidates on the masks of `resized`:
\* a candidate anywhere in that image
CoordDetect ==
    /\ copc = "detect"
    /\ \E x, y \in 0 .. co_resized.size - 1 : co_cand' = <<x, y>>
    /\ copc' = "rectify"
    /\ UNCHANGED <<co_gray, co_resized, co_disk, co_call>>
    /\ UNCHANGED coordOthers

\* rectify_patch_from_solar_orientation(gray, px, py, patch_size, cx, cy,
\* r, img_date_time)
CoordRectify ==
    /\ copc = "rectify"
    /\ co_call' = [image |-> co_gray, px |-> co_cand[1], py |-> co_cand[2],
                   cx |-> co_disk[1], cy |-> co_disk[2], r |-> co_disk[3]]
    /\ copc' = "done"
    /\ UNCHANGED <<co_gray, co_resized, co_disk, co_cand>>
    /\ UNCHANGED coordOthers

CoordNext == CoordSegment \/ CoordDetect \/ CoordRectify

CoordSpec == CoordInit /\ [][CoordNext]_vars

\* the scene point that pixel (x, y) of an image shows, as two fractions
ScenePoint(image, x, y) == <<Frac(x, image.size), Frac(y, image.size)>>

\* C26: whatever the input resolution, the image handed to
\* rectify_patch_from_solar_orientation is in the frame of the image the
\* candidate and the disk were detected on: the candidate center and the
\* disk center show the same scene point in both.
C26_OneCoordinateFrame ==
    copc = "done" =>
        /\ ScenePoint(co_call.image, co_call.px, co_call.py)
              = ScenePoint(co_resized, co_cand[1], co_cand[2])
        /\ ScenePoint(co_call.image, co_call.cx, co_call.cy)
              = ScenePoint(co_resized, co_disk[1], co_disk[2])

----------------------------------------------------------------------------
(* The training thread _run_training with ModelManager, and                *)
(* get_cached_model.  Model 1 is the model that is active before any       *)
(* training; job k trains model k + 1.  A file operation either succeeds   *)
(* or raises; shutil.copy onto the active model can raise before it opens  *)
(* the destination, while it writes (the file is left partial, -1), or     *)
(* after the content is written.  Loading a partial file raises.           *)

MaxJobs == 2
MaxCacheRequests == 2

CacheRequests == 1 .. MaxCacheRequests

\* training_status after the `# Update status` block of start_training
StatusRunning == [is_running |-> TRUE, status |-> "running", finished_at |-> FALSE]

\* training_status after the last block of the try ("completed") or after
\* the except clause ("failed")
StatusFinished(outcome) ==
    [is_running |-> FALSE, status |-> outcome, finished_at |-> TRUE]

JobInit ==
    /\ job_pc = "none"
    /\ job_no = 0
    /\ run_status = [is_running |-> FALSE, status |-> "idle",
                     finished_at |-> FALSE]
    /\ active_model \in {0, 1}
    /\ active_before = 0
    /\ archive_files = {}
    /\ model_cache = 0
    /\ model_lock = 0
    /\ cache_reqs = <<>>
    /\ JobOthersIdle

\* start_training past its 409 check: status update and thread.start()
JobStart ==
    /\ job_pc \in {"none", "ended"}
    /\ ~run_status.is_running
    /\ job_no < MaxJobs
    /\ job_no' = job_no + 1
    /\ run_status' = StatusRunning
    /\ active_before' = active_model
    /\ job_pc' = "import"
    /\ UNCHANGED <<active_model, archive_files, model_cache, model_lock,
                   cache_reqs>>
    /\ UNCHANGED jobOthers

\* lines 1150-1151, before the try: an ImportError ends the thread
JobImport(ok) ==
    /\ job_pc = "import"
    /\ job_pc' = IF ok THEN "check" ELSE "ended"
    /\ UNCHANGED <<job_no, run_status, active_model, active_before,
                   archive_files, model_cache, model_lock, cache_reqs>>
    /\ UNCHANGED jobOthers

\* lines 1177-1188: the dataset checks
JobCheck(ok) ==
    /\ job_pc = "check"
    /\ job_pc' = IF ok THEN "archive" ELSE "except"
    /\ UNCHANGED <<job_no, run_status, active_model, active_before,
                   archive_files, model_cache, model_lock, cache_reqs>>
    /\ UNCHANGED jobOthers

\* ModelManager.archive_active_model: shutil.copy(src, dst) to a new file
JobArchive(ok) ==
    /\ job_pc = "archive"
    /\ IF active_model = 0
       THEN /\ job_pc' = "train"
            /\ UNCHANGED archive_files
       ELSE IF ok
       THEN /\ job_pc' = "train"
            /\ archive_files' = archive_files \cup {active_model}
       ELSE /\ job_pc' = "except"
            /\ UNCHANGED archive_files
    /\ UNCHANGED <<job_no, run_status, active_model, active_before,
                   model_cache, model_lock, cache_reqs>>
    /\ UNCHANGED jobOthers

\* lines 1198-1230: YOLO(...), model.train(...), best.pt exists
JobTrain(ok) ==
    /\ job_pc = "train"
    /\ job_pc' = IF ok THEN "save" ELSE "except"
    /\ UNCHANGED <<job_no, run_status, active_model, active_before,
                   archive_files, model_cache, model_lock, cache_reqs>>
    /\ UNCHANGED jobOthers

\* ModelManager.save_active_model: mkdir, then shutil.copy opens
\* ML_MODELS_ACTIVE/best.pt for writing
JobCopyOpen(ok) ==
    /\ job_pc = "save"
    /\ IF ok THEN /\ active_model' = -1
                  /\ job_pc' = "copying"
             ELSE /\ job_pc' = "except"
                  /\ UNCHANGED active_model
    /\ UNCHANGED <<job_no, run_status, active_before, archive_files,
                   model_cache, model_lock, cache_reqs>>
    /\ UNCHANGED jobOthers

\* shutil.copy: the content is written and the mode copied ("done"), the
\* write raises ("broken"), or the mode change after it raises ("mode")
JobCopyEnd(outcome) ==
    /\ job_pc = "copying"
    /\ active_model' = IF outcome = "broken" THEN -1 ELSE job_no + 1
    /\ job_pc' = IF outcome = "done" THEN "invalidate" ELSE "except"
    /\ UNCHANGED <<job_no, run_status, active_before, archive_files,
                   model_cache, model_lock, cache_reqs>>
    /\ UNCHANGED jobOthers

\* mutation of CacheInvalidated: the cached model is kept
CacheKept(cache) == cache

\* _model_cache["model"] after invalidate_model_cache
CacheInvalidated(cache) == 0

\* invalidate_model_cache(), under _model_lock
JobInvalidate ==
    /\ job_pc = "invalidate"
    /\ model_lock = 0
    /\ model_cache' = CacheInvalidated(model_cache)
    /\ job_pc' = "complete"
    /\ UNCHANGED <<job_no, run_status, active_model, active_before,
                   archive_files, model_lock, cache_reqs>>
    /\ UNCHANGED jobOthers

\* lines 1235-1245 ("complete") and 1247-1256 ("except")
JobFinish ==
    /\ job_pc \in {"complete", "except"}
    /\ run_status' = StatusFinished(IF job_pc = "complete" THEN "completed"
                                    ELSE "failed")
    /\ job_pc' = "ended"
    /\ UNCHANGED <<job_no, active_model, active_before, archive_files,
                   model_cache, model_lock, cache_reqs>>
    /\ UNCHANGED jobOthers

\* the record of a get_cached_model call: `fresh` holds the active model if
\* the call began while the status was "completed", and 0 otherwise
CacheReq(r, pc, loaded, returned, fresh) ==
    [k \in DOMAIN cache_reqs \cup {r} |->
        IF k = r THEN [pc |-> pc, loaded |-> loaded, returned |-> returned,
                       fresh |-> fresh]
        ELSE cache_reqs[k]]

FreshNow == IF run_status.status = "completed" THEN active_model ELSE 0

\* get_cached_model up to the cache test: no file, a hit, or a miss that
\* keeps _model_lock for the load
GetBegin(r) ==
    /\ r \notin DOMAIN cache_reqs
    /\ IF active_model = 0
       THEN /\ cache_reqs' = CacheReq(r, "done", 0, 0, FreshNow)
            /\ UNCHANGED model_lock
       ELSE /\ model_lock = 0
            /\ IF model_cache # 0
               THEN /\ cache_reqs' =
                          CacheReq(r, "done", 0, model_cache, FreshNow)
                    /\ UNCHANGED model_lock
               ELSE /\ cache_reqs' = CacheReq(r, "loading", 0, 0, FreshNow)
                    /\ model_lock' = r
    /\ UNCHANGED <<job_pc, job_no, run_status, active_model, active_before,
                   archive_files, model_cache>>
    /\ UNCHANGED jobOthers

\* YOLO(str(model_path)) reads the file; a partial file raises and the
\* except clause returns None
GetLoad(r) ==
    /\ r \in DOMAIN cache_reqs /\ cache_reqs[r].pc = "loading"
    /\ IF active_model = -1
       THEN /\ cache_reqs' = CacheReq(r, "done", 0, 0, cache_reqs[r].fresh)
            /\ model_lock' = 0
       ELSE /\ cache_reqs' =
                  CacheReq(r, "store", active_model, 0, cache_reqs[r].fresh)
            /\ UNCHANGED model_lock
    /\ UNCHANGED <<job_pc, job_no, run_status, active_model, active_before,
                   archive_files, model_cache>>
    /\ UNCHANGED jobOthers

\* lines 117-121: the cache is filled and the model returned
GetStore(r) ==
    /\ r \in DOMAIN cache_reqs /\ cache_reqs[r].pc = "store"
    /\ model_cache' = cache_reqs[r].loaded
    /\ cache_reqs' = CacheReq(r, "done", cache_reqs[r].loaded,
                              cache_reqs[r].loaded, cache_reqs[r].fresh)
    /\ model_lock' = 0
    /\ UNCHANGED <<job_pc, job_no, run_status, active_model, active_before,
                   archive_files>>
    /\ UNCHANGED jobOthers

JobNext ==
    \/ JobStart
    \/ \E ok \in BOOLEAN : JobImport(ok)
    \/ \E ok \in BOOLEAN : JobCheck(ok)
    \/ \E ok \in BOOLEAN : JobArchive(ok)
    \/ \E ok \in BOOLEAN : JobTrain(ok)
    \/ \E ok \in BOOLEAN : JobCopyOpen(ok)
    \/ \E outcome \in {"done", "broken", "mode"} : JobCopyEnd(outcome)
    \/ JobInvalidate
    \/ JobFinish
    \/ \E r \in CacheRequests : GetBegin(r)
    \/ \E r \in CacheRequests : GetLoad(r)
    \/ \E r \in CacheRequests : GetStore(r)

JobSpec == JobInit /\ [][JobNext]_vars

C28_CacheFresh ==
    /\ \A r \in DOMAIN cache_reqs :
          (cache_reqs[r].pc = "done" /\ cache_reqs[r].fresh # 0
              /\ cache_reqs[r].returned # 0)
            => cache_reqs[r].returned >= cache_reqs[r].fresh
    /\ run_status.status = "completed" =>
          model_cache \in {0, active_model}

\* a request loaded model 1 into the cache, training saved model 2 and
\* completed, and a later request got model 2
C28_Witness ==
    /\ run_status.status = "completed"
    /\ active_model = 2
    /\ \E r1, r2 \in DOMAIN cache_reqs :
          /\ cache_reqs[r1].pc = "done" /\ cache_reqs[r1].returned = 1
          /\ cache_reqs[r2].pc = "done" /\ cache_reqs[r2].fresh = 2
          /\ cache_reqs[r2].returned = 2

\* C30: a job that ended with status failed left the active model file as
\* it was when the job started, and archiving never changes that file.
C30_FailedKeepsActiveModel ==
    /\ (job_pc = "ended" /\ run_status.status = "failed")
          => active_model = active_before
    /\ job_pc \in {"train", "save"} => active_model = active_before

----------------------------------------------------------------------------
\* AuthHelper.authenticate_user (backend/helpers/AuthenticationHelper.py),
\* called by POST /auth/token.  Every request has a session of its own
\* (get_db) and therefore a User object of its own; the coroutine yields to
\* the event loop at the lookup (line 48) and at the commit (lines 70, 75),
\* and runs without interruption between the two.

MaxSessions == 2
AuthSessions == 1 .. MaxSessions

\* `if user.login_attempts >= 5`
LockThreshold == 5

NoCall ==
    [pc |-> "idle", attempts |-> 0, loaded |-> 0, locks |-> FALSE,
     began_locked |-> FALSE, result |-> "pending"]

AuthInit ==
    /\ user_row = [login_attempts |-> 0, locked |-> FALSE]
    /\ auth_sessions = [s \in AuthSessions |-> NoCall]
    /\ failures = 0
    /\ AuthOthersIdle

\* the lookup finds the account locked: return None
AuthBlocked(s) ==
    /\ auth_sessions[s].pc = "idle"
    /\ user_row.locked
    /\ auth_sessions' = [auth_sessions EXCEPT ![s] =
           [NoCall EXCEPT !.pc = "returned", !.began_locked = TRUE,
                          !.loaded = user_row.login_attempts,
                          !.attempts = user_row.login_attempts,
                          !.result = "None"]]
    /\ UNCHANGED <<user_row, failures, authOthers>>

\* the lookup finds the account unlocked and the password is wrong:
\* user.login_attempts += 1, user.locked = True from the fifth on; the
\* coroutine then waits in db.commit()
AuthWrongPassword(s) ==
    /\ auth_sessions[s].pc = "idle"
    /\ ~user_row.locked
    /\ auth_sessions' = [auth_sessions EXCEPT ![s] =
           [NoCall EXCEPT !.pc = "commit_failed",
                          !.loaded = user_row.login_attempts,
                          !.attempts = user_row.login_attempts + 1,
                          !.locks =
                              (user_row.login_attempts + 1 >= LockThreshold)]]
    /\ UNCHANGED <<user_row, failures, authOthers>>

\* the lookup finds the account unlocked and the password is right:
\* user.login_attempts = 0; the coroutine then waits in db.commit()
AuthRightPassword(s) ==
    /\ auth_sessions[s].pc = "idle"
    /\ ~user_row.locked
    /\ auth_sessions' = [auth_sessions EXCEPT ![s] =
           [NoCall EXCEPT !.pc = "commit_ok",
                          !.loaded = user_row.login_attempts,
                          !.attempts = 0]]
    /\ UNCHANGED <<user_row, failures, authOthers>>

\* db.commit() of a failed attempt writes the attributes the session
\* changed: login_attempts, and locked if the session set it; return None
AuthCommitFailed(s) ==
    /\ auth_sessions[s].pc = "commit_failed"
    /\ user_row' = [login_attempts |-> auth_sessions[s].attempts,
                    locked |-> user_row.locked \/ auth_sessions[s].locks]
    /\ failures' = failures + 1
    /\ auth_sessions' = [auth_sessions EXCEPT ![s].pc = "returned",
                                              ![s].result = "None"]
    /\ UNCHANGED authOthers

\* db.commit() of a successful login writes login_attempts = 0 if the
\* session changed the attribute; return user
AuthCommitOk(s) ==
    /\ auth_sessions[s].pc = "commit_ok"
    /\ user_row' = [user_row EXCEPT !.login_attempts =
                       IF auth_sessions[s].loaded # 0 THEN 0 ELSE @]
    /\ failures' = 0
    /\ auth_sessions' = [auth_sessions EXCEPT ![s].pc = "returned",
                                              ![s].result = "User"]
    /\ UNCHANGED authOthers

\* the request ends and get_db closes its session
AuthClose(s) ==
    /\ auth_sessions[s].pc = "returned"
    /\ auth_sessions' = [auth_sessions EXCEPT ![s] = NoCall]
    /\ UNCHANGED <<user_row, failures, authOthers>>

AuthNext ==
    \/ \E s \in AuthSessions : AuthBlocked(s)
    \/ \E s \in AuthSessions : AuthWrongPassword(s)
    \/ \E s \in AuthSessions : AuthRightPassword(s)
    \/ \E s \in AuthSessions : AuthCommitFailed(s)
    \/ \E s \in AuthSessions : AuthCommitOk(s)
    \/ \E s \in AuthSessions : AuthClose(s)

AuthSpec == AuthInit /\ [][AuthNext]_vars

====
